---------------------------- MODULE Spec2Model ----------------------------
(***************************************************************************)
(* Model of the dvb_fpga_debug register access layer: the four backend     *)
(* transports (dvb/fake_access.py, dvb/arm.py, dvb/xdma.py,                *)
(* dvb/peek_poke.py), the AXI debug block and the encoder's field          *)
(* accessors (dvb/dvb_encoder.py) and the AXI streaming FIFO               *)
(* (dvb/axi_fifo.py).                                                      *)
(*                                                                         *)
(* A 32-bit register value is the pair <<hi, lo>> of its 16-bit halves     *)
(* (the model checker's integers are 32-bit signed, 0xFFFFFFFF is not one).*)
(***************************************************************************)
EXTENDS Integers, Sequences, FiniteSets, TLC

VARIABLES
    backend,   \* which BaseMemoryRegion common.py imported
    mem,       \* absolute address -> word: DATA of the fake, device registers otherwise
    lock,      \* holder of BaseMemoryRegion._lock, or NoThread
    th,        \* per thread: the operation it runs and where it is in it
    dbg,       \* word_count / max_frame_length / min_frame_length of the AxiDebug under test
    blk,       \* region offset of the AxiDebug under test (one of the seven)
    active     \* the threads that call into the core

vars == <<backend, mem, lock, th, dbg, blk, active>>

----------------------------------------------------------------------------
(* Bounds of the model *)

\* longest byte string handed to AxiFifo.send
MaxLen == 5
\* largest entry count handed to AxiFifo.receive, largest RX occupancy
MaxEntries == 2
\* largest value of the hardware's cumulative word counter
MaxCount == 2
\* largest denominator of a real value n / d handed to toFixedPoint
MaxDen == 8
\* longest sequence of raw accesses through the regions
MaxAccesses == 3

----------------------------------------------------------------------------
(* 32-bit words and Python's integer operators on them *)

RECURSIVE BitAnd(_, _)
BitAnd(a, b) ==
    IF a = 0 \/ b = 0 THEN 0
    ELSE (a % 2) * (b % 2) + 2 * BitAnd(a \div 2, b \div 2)

RECURSIVE BitOr(_, _)
BitOr(a, b) ==
    IF a = 0 THEN b
    ELSE IF b = 0 THEN a
    ELSE (IF a % 2 = 1 \/ b % 2 = 1 THEN 1 ELSE 0) + 2 * BitOr(a \div 2, b \div 2)

RECURSIVE Pow2(_)
Pow2(n) == IF n = 0 THEN 1 ELSE 2 * Pow2(n - 1)

\* the word of a non-negative integer below 2^31
W32(n) == <<n \div 65536, n % 65536>>

Zero == <<0, 0>>

\* x & y
AND(x, y) == <<BitAnd(x[1], y[1]), BitAnd(x[2], y[2])>>

\* x | y
OR(x, y) == <<BitOr(x[1], y[1]), BitOr(x[2], y[2])>>

\* ~x, on the 32 bits an & with a register value keeps
INV(x) == <<65535 - x[1], 65535 - x[2]>>

\* x << n for 0 <= n < 32, not truncated (Python's integers do not wrap)
SHL(x, n) ==
    IF n < 16
    THEN <<x[1] * Pow2(n) + x[2] \div Pow2(16 - n), (x[2] * Pow2(n)) % 65536>>
    ELSE <<x[2] * Pow2(n - 16), 0>>

\* x >> n for 0 <= n < 32
SHR(x, n) ==
    IF n < 16
    THEN <<x[1] \div Pow2(n), (x[1] % Pow2(n)) * Pow2(16 - n) + x[2] \div Pow2(n)>>
    ELSE <<0, x[1] \div Pow2(n - 16)>>

\* Optional values: None, or Some(v)
None == <<>>
Some(v) == <<v>>

----------------------------------------------------------------------------
(* Backends (dvb/common.py selects one at import) *)

Backends == {"InMemoryFake", "DirectMap", "UserspaceDmaMap", "ExternalTool"}

\* fake_access.py, arm.py and xdma.py take a class-level Lock around every
\* access; peek_poke.py has none
HasLock(b) == b \in {"InMemoryFake", "DirectMap", "UserspaceDmaMap"}

\* fake_access._dictRead and peek_poke._peek assert the page of the address
ChecksPage(b) == b \in {"InMemoryFake", "ExternalTool"}

ValidPage(addr) == (addr \div 65536) % 256 \in {192, 193, 194}

Threads == {"t1", "t2"}
NoThread == "none"

----------------------------------------------------------------------------
(* Memory regions and register offsets *)

\* base address of the DvbEncoder region and of the AxiFifo region, both in
\* the pages _dictRead accepts
EncBase == 192 * 65536
FifoBase == 193 * 65536

BaseAddr(region) == IF region = "enc" THEN EncBase ELSE FifoBase

\* dvb/axi_fifo.py
ISR == 0
IER == 4
TX_FIFO_RESET == 8
TX_FIFO_VACANCY == 12
TX_FIFO_DATA == 16
TX_LENGTH_REGISTER == 20
RX_FIFO_RESET == 24
RX_FIFO_OCCUPANCY == 28
RX_FIFO_DATA == 32
RX_LENGTH_REGISTER == 36
AXI4_STREAM_RESET == 40
TX_DEST_REGISTER == 44
RX_DEST_REGISTER == 48
TX_ID_REGISTER == 52
TX_USER_REGISTER == 56
RX_ID_REGISTER == 60
RX_USER_REGISTER == 64

FifoOffsets == {4 * i : i \in 0..16}

\* the seven AxiDebug instances of DvbEncoder.__init__:
\* 0xD00, 0xE00, 0xF00, 0x1000, 0x1100, 0x1200, 0x1300
DebugBlocks == {3328 + 256 * i : i \in 0..6}

\* registers of one AxiDebug: control, frame count, last frame length,
\* max/min frame length, word count, strobes
DebugOffsets == {0, 4, 8, 12, 16, 20}

\* global registers of DvbEncoder
EncGlobalOffsets == {0, 4, 8}

EncOffsets == EncGlobalOffsets \cup {b + o : b \in DebugBlocks, o \in DebugOffsets}

AllAddrs == {EncBase + o : o \in EncOffsets} \cup {FifoBase + o : o \in FifoOffsets}

----------------------------------------------------------------------------
(* The store behind a backend *)

\* fake_access._dictRead: DATA.get(addr, 0)
dictRead(m, addr) == IF addr \in DOMAIN m THEN m[addr] ELSE Zero

\* a store that keeps the first value written to an address
dictWrite_KeepsFirst(m, addr, data) ==
    [a \in (DOMAIN m) \cup {addr} |-> IF a \in DOMAIN m THEN m[a] ELSE data]

\* fake_access._dictWrite: DATA[addr] = data
dictWrite(m, addr, data) ==
    [a \in (DOMAIN m) \cup {addr} |-> IF a = addr THEN data ELSE m[a]]

\* a write that reaches the device (mmap write of arm.py / xdma.py, poke of
\* peek_poke.py). The ISR is "Read/Clear on Write(1)" (axi_fifo.py): the
\* bits written as 1 are cleared. Every other register keeps what is written.
devWrite(m, addr, data) ==
    IF addr = FifoBase + ISR
    THEN [m EXCEPT ![addr] = AND(m[addr], INV(data))]
    ELSE [m EXCEPT ![addr] = data]

\* data.to_bytes(4, "little") of arm.py / xdma.py raises for a value of more
\* than 32 bits
Fits32(w) == w[1] <= 65535

storeWrite(b, m, addr, data) ==
    IF b = "InMemoryFake" THEN dictWrite(m, addr, data) ELSE devWrite(m, addr, data)

----------------------------------------------------------------------------
(* Register fields of dvb_encoder.py: the property's name, the register    *)
(* offset, the bits the setter clears, the mask applied to the value, and  *)
(* the shift                                                               *)

NoField == [name |-> "none", off |-> 0, clr |-> Zero, vm |-> Zero, sh |-> 0]

\* AxiDebug.block_data: current & ~1 | value & 1
block_data(b) ==
    [name |-> "block_data", off |-> b + 0, clr |-> W32(1), vm |-> W32(1), sh |-> 0]

\* AxiDebug.allow_word: current & ~2 | (value & 1) << 1
allow_word(b) ==
    [name |-> "allow_word", off |-> b + 0, clr |-> W32(2), vm |-> W32(1), sh |-> 1]

\* AxiDebug.allow_frame: current & ~4 | (value & 1) << 2
allow_frame(b) ==
    [name |-> "allow_frame", off |-> b + 0, clr |-> W32(4), vm |-> W32(1), sh |-> 2]

\* DvbEncoder.physical_layer_scrambler_shift_reg_init:
\* current & ~0x3FFFF | ((value & 0x3FFFF) << 0)
physical_layer_scrambler_shift_reg_init ==
    [name |-> "physical_layer_scrambler_shift_reg_init", off |-> 0,
     clr |-> W32(262143), vm |-> W32(262143), sh |-> 0]

\* DvbEncoder.enable_dummy_frames: current & ~0x40000 | ((value & 0x1) << 18)
enable_dummy_frames ==
    [name |-> "enable_dummy_frames", off |-> 0, clr |-> W32(262144), vm |-> W32(1), sh |-> 18]

\* a setter that ORs the value in without clearing the field first
SetterWord_NoClear(current, f, value) ==
    OR(current, SHL(AND(value, f.vm), f.sh))

\* the word a field setter writes back
SetterWord(current, f, value) ==
    OR(AND(current, INV(f.clr)), SHL(AND(value, f.vm), f.sh))

\* the value a field getter returns
GetterValue(word, f) == AND(SHR(word, f.sh), f.vm)

\* AxiDebug.getFrameLengths: max = (value >> 16) & 0xFFFF, min = value & 0xFFFF
getFrameLengths(value) ==
    [max |-> AND(SHR(value, 16), W32(65535)), min |-> AND(value, W32(65535))]

----------------------------------------------------------------------------
(* Operations as the sequence of register accesses they issue. An access   *)
(* is a record: k = "R" (self._read), "W" (self._write of d) or "WF"       *)
(* (self._write of the field word computed from the last read); post names *)
(* what the caller does with the value read.                               *)

Rd(region, a, post) ==
    [k |-> "R", region |-> region, a |-> a, d |-> Zero, f |-> NoField, post |-> post]

Wr(region, a, d) ==
    [k |-> "W", region |-> region, a |-> a, d |-> d, f |-> NoField, post |-> "none"]

WrField(region, f, value) ==
    [k |-> "WF", region |-> region, a |-> f.off, d |-> value, f |-> f, post |-> "none"]

\* a property setter of dvb_encoder.py: current = self._read(..); self._write(..)
FieldSetter(f, value) == <<Rd("enc", f.off, "current"), WrField("enc", f, value)>>

\* a property getter of dvb_encoder.py
FieldGetter(f) == <<[Rd("enc", f.off, "field") EXCEPT !.f = f]>>

\* an update() that writes the counters back as 0 after reading them
update_ClearsCounters(b) ==
    << Rd("enc", b + 16, "word_count"), Rd("enc", b + 12, "lengths"),
       Wr("enc", b + 16, Zero), Wr("enc", b + 12, Zero) >>

\* AxiDebug.update of the block at offset b
update(b) == <<Rd("enc", b + 16, "word_count"), Rd("enc", b + 12, "lengths")>>

\* a reset that pulses the TX and RX FIFO resets only (as _resetFifos does)
reset_FifosOnly ==
    << Wr("fifo", TX_FIFO_RESET, W32(165)),
       Wr("fifo", RX_FIFO_RESET, W32(165)) >>

\* AxiFifo.reset
reset ==
    << Wr("fifo", TX_FIFO_RESET, W32(165)),
       Wr("fifo", AXI4_STREAM_RESET, W32(165)),
       Wr("fifo", RX_FIFO_RESET, W32(165)) >>

AllOnes == <<65535, 65535>>

\* AxiFifo.init
init ==
    << Rd("fifo", ISR, "none"),
       Wr("fifo", ISR, AllOnes),
       Rd("fifo", ISR, "none"),
       Rd("fifo", IER, "none"),
       Rd("fifo", TX_FIFO_VACANCY, "none"),
       Rd("fifo", RX_FIFO_OCCUPANCY, "none") >>

Min(a, b) == IF a < b THEN a ELSE b

\* int.from_bytes(word, "big") of a chunk of at most 4 bytes
FromBytesBig(word) ==
    LET n == Len(word)
        b == [i \in 1..4 |-> IF i <= 4 - n THEN 0 ELSE word[i - (4 - n)]]
    IN  <<b[1] * 256 + b[2], b[3] * 256 + b[4]>>

\* data[4 * i : 4 * i + 4]
Chunk(data, i) == SubSeq(data, 4 * i + 1, Min(4 * i + 4, Len(data)))

\* AxiFifo._writeTxLength
writeTxLength(length_in_bytes) == <<Wr("fifo", TX_LENGTH_REGISTER, W32(length_in_bytes))>>

\* a send that commits the length before it fills the data port
send_LengthFirst(data, tid) ==
    LET words == (Len(data) + 3) \div 4
    IN  << Wr("fifo", IER, W32(201326592)),
           Wr("fifo", TX_DEST_REGISTER, Zero),
           Wr("fifo", TX_ID_REGISTER, tid),
           Wr("fifo", TX_USER_REGISTER, tid) >>
        \o writeTxLength(Len(data))
        \o [i \in 1..words |-> Wr("fifo", TX_FIFO_DATA, FromBytesBig(Chunk(data, i - 1)))]
        \o << Rd("fifo", TX_FIFO_VACANCY, "none"),
              Rd("fifo", ISR, "none"),
              Wr("fifo", ISR, AllOnes),
              Rd("fifo", ISR, "none"),
              Rd("fifo", TX_FIFO_VACANCY, "none") >>

\* AxiFifo.send
send(data, tid) ==
    LET words == (Len(data) + 3) \div 4
    IN  << Wr("fifo", IER, W32(201326592)),
           Wr("fifo", TX_DEST_REGISTER, Zero),
           Wr("fifo", TX_ID_REGISTER, tid),
           Wr("fifo", TX_USER_REGISTER, tid) >>
        \o [i \in 1..words |-> Wr("fifo", TX_FIFO_DATA, FromBytesBig(Chunk(data, i - 1)))]
        \o <<Rd("fifo", TX_FIFO_VACANCY, "none")>>
        \o writeTxLength(Len(data))
        \o << Rd("fifo", ISR, "none"),
              Wr("fifo", ISR, AllOnes),
              Rd("fifo", ISR, "none"),
              Rd("fifo", TX_FIFO_VACANCY, "none") >>

\* AxiFifo.getRxOccupation
getRxOccupation == <<Rd("fifo", RX_FIFO_OCCUPANCY, "entries")>>

\* the loop of AxiFifo.receive over range(entries)
receiveLoop(entries) == [i \in 1..entries |-> Rd("fifo", RX_FIFO_DATA, "rx")]

\* AxiFifo.receive: entries = entries or self.getRxOccupation()
\* (None and 0 are both false)
receive(entries) ==
    IF entries = None \/ entries = Some(0)
    THEN getRxOccupation
    ELSE receiveLoop(entries[1])

\* f"{word:08X}": the 8 hexadecimal digits of a word
Hex8(w) ==
    << w[1] \div 4096, (w[1] \div 256) % 16, (w[1] \div 16) % 16, w[1] % 16,
       w[2] \div 4096, (w[2] \div 256) % 16, (w[2] \div 16) % 16, w[2] % 16 >>

\* bytes.fromhex of a string of 8 digits
FromHex(h) == [i \in 1..4 |-> h[2 * i - 1] * 16 + h[2 * i]]

\* a receive that returns the bytes of the word in the order read
Swizzle_NoSwap(w) == FromHex(Hex8(w))

\* word[2:4] + word[0:2] + word[6:8] + word[4:6], then bytes.fromhex
Swizzle(w) ==
    LET word == Hex8(w)
    IN  FromHex(SubSeq(word, 3, 4) \o SubSeq(word, 1, 2)
                \o SubSeq(word, 7, 8) \o SubSeq(word, 5, 6))

\* the integer of a word read as a count
ToInt(w) == w[1] * 65536 + w[2]

----------------------------------------------------------------------------
(* Frame types, constellations, code rates and the TID table (dvb/common.py) *)

\* FrameType
FrameTypes == {"FECFRAME_NORMAL", "FECFRAME_SHORT"}

\* ConstellationType, in the order of the enumeration
ConstellationSeq == <<"MOD_QPSK", "MOD_8PSK", "MOD_16APSK", "MOD_32APSK">>

\* CodeRate, in the order of the enumeration
CodeRateSeq ==
    <<"C1_4", "C1_3", "C2_5", "C1_2", "C3_5", "C2_3", "C3_4", "C4_5", "C5_6", "C8_9", "C9_10">>

Constellations == {ConstellationSeq[i] : i \in DOMAIN ConstellationSeq}
CodeRates == {CodeRateSeq[i] : i \in DOMAIN CodeRateSeq}

\* a table in which the last short-frame entry repeats the first normal-frame value
TID_MAP_SharedValue ==
    [ FECFRAME_SHORT |->
        [ MOD_QPSK |->
              [ C1_4 |-> 0, C1_3 |-> 1, C2_5 |-> 2, C1_2 |-> 3, C3_5 |-> 4, C2_3 |-> 5,
                C3_4 |-> 6, C4_5 |-> 7, C5_6 |-> 8, C8_9 |-> 9, C9_10 |-> 10 ],
          MOD_8PSK |->
              [ C1_4 |-> 11, C1_3 |-> 12, C2_5 |-> 13, C1_2 |-> 14, C3_5 |-> 15, C2_3 |-> 16,
                C3_4 |-> 17, C4_5 |-> 18, C5_6 |-> 19, C8_9 |-> 20, C9_10 |-> 21 ],
          MOD_16APSK |->
              [ C1_4 |-> 22, C1_3 |-> 23, C2_5 |-> 24, C1_2 |-> 25, C3_5 |-> 26, C2_3 |-> 27,
                C3_4 |-> 28, C4_5 |-> 29, C5_6 |-> 30, C8_9 |-> 31, C9_10 |-> 32 ],
          MOD_32APSK |->
              [ C1_4 |-> 33, C1_3 |-> 34, C2_5 |-> 35, C1_2 |-> 36, C3_5 |-> 37, C2_3 |-> 38,
                C3_4 |-> 39, C4_5 |-> 40, C5_6 |-> 41, C8_9 |-> 42, C9_10 |-> 44 ] ],
      FECFRAME_NORMAL |->
        [ MOD_QPSK |->
              [ C1_4 |-> 44, C1_3 |-> 45, C2_5 |-> 46, C1_2 |-> 47, C3_5 |-> 48, C2_3 |-> 49,
                C3_4 |-> 50, C4_5 |-> 51, C5_6 |-> 52, C8_9 |-> 53, C9_10 |-> 54 ],
          MOD_8PSK |->
              [ C1_4 |-> 55, C1_3 |-> 56, C2_5 |-> 57, C1_2 |-> 58, C3_5 |-> 59, C2_3 |-> 60,
                C3_4 |-> 61, C4_5 |-> 62, C5_6 |-> 63, C8_9 |-> 64, C9_10 |-> 65 ],
          MOD_16APSK |->
              [ C1_4 |-> 66, C1_3 |-> 67, C2_5 |-> 68, C1_2 |-> 69, C3_5 |-> 70, C2_3 |-> 71,
                C3_4 |-> 72, C4_5 |-> 73, C5_6 |-> 74, C8_9 |-> 75, C9_10 |-> 76 ],
          MOD_32APSK |->
              [ C1_4 |-> 77, C1_3 |-> 78, C2_5 |-> 79, C1_2 |-> 80, C3_5 |-> 81, C2_3 |-> 82,
                C3_4 |-> 83, C4_5 |-> 84, C5_6 |-> 85, C8_9 |-> 86, C9_10 |-> 87 ] ] ]

\* TID_MAP, entry by entry
TID_MAP ==
    [ FECFRAME_SHORT |->
        [ MOD_QPSK |->
              [ C1_4 |-> 0, C1_3 |-> 1, C2_5 |-> 2, C1_2 |-> 3, C3_5 |-> 4, C2_3 |-> 5,
                C3_4 |-> 6, C4_5 |-> 7, C5_6 |-> 8, C8_9 |-> 9, C9_10 |-> 10 ],
          MOD_8PSK |->
              [ C1_4 |-> 11, C1_3 |-> 12, C2_5 |-> 13, C1_2 |-> 14, C3_5 |-> 15, C2_3 |-> 16,
                C3_4 |-> 17, C4_5 |-> 18, C5_6 |-> 19, C8_9 |-> 20, C9_10 |-> 21 ],
          MOD_16APSK |->
              [ C1_4 |-> 22, C1_3 |-> 23, C2_5 |-> 24, C1_2 |-> 25, C3_5 |-> 26, C2_3 |-> 27,
                C3_4 |-> 28, C4_5 |-> 29, C5_6 |-> 30, C8_9 |-> 31, C9_10 |-> 32 ],
          MOD_32APSK |->
              [ C1_4 |-> 33, C1_3 |-> 34, C2_5 |-> 35, C1_2 |-> 36, C3_5 |-> 37, C2_3 |-> 38,
                C3_4 |-> 39, C4_5 |-> 40, C5_6 |-> 41, C8_9 |-> 42, C9_10 |-> 43 ] ],
      FECFRAME_NORMAL |->
        [ MOD_QPSK |->
              [ C1_4 |-> 44, C1_3 |-> 45, C2_5 |-> 46, C1_2 |-> 47, C3_5 |-> 48, C2_3 |-> 49,
                C3_4 |-> 50, C4_5 |-> 51, C5_6 |-> 52, C8_9 |-> 53, C9_10 |-> 54 ],
          MOD_8PSK |->
              [ C1_4 |-> 55, C1_3 |-> 56, C2_5 |-> 57, C1_2 |-> 58, C3_5 |-> 59, C2_3 |-> 60,
                C3_4 |-> 61, C4_5 |-> 62, C5_6 |-> 63, C8_9 |-> 64, C9_10 |-> 65 ],
          MOD_16APSK |->
              [ C1_4 |-> 66, C1_3 |-> 67, C2_5 |-> 68, C1_2 |-> 69, C3_5 |-> 70, C2_3 |-> 71,
                C3_4 |-> 72, C4_5 |-> 73, C5_6 |-> 74, C8_9 |-> 75, C9_10 |-> 76 ],
          MOD_32APSK |->
              [ C1_4 |-> 77, C1_3 |-> 78, C2_5 |-> 79, C1_2 |-> 80, C3_5 |-> 81, C2_3 |-> 82,
                C3_4 |-> 83, C4_5 |-> 84, C5_6 |-> 85, C8_9 |-> 86, C9_10 |-> 87 ] ] ]

\* a configuration: frame type, constellation, code rate
NoCfg == [frame |-> "none", constellation |-> "none", rate |-> "none"]

Cfg(frame, constellation, rate) ==
    [frame |-> frame, constellation |-> constellation, rate |-> rate]

Cfgs == {Cfg(f, c, r) : f \in FrameTypes, c \in Constellations, r \in CodeRates}

\* TID_MAP[frame_type][constellation][code_rate] of Runner.sendFromFile; a
\* missing key raises KeyError
HasTid(cfg) ==
    /\ cfg.frame \in DOMAIN TID_MAP
    /\ cfg.constellation \in DOMAIN TID_MAP[cfg.frame]
    /\ cfg.rate \in DOMAIN TID_MAP[cfg.frame][cfg.constellation]

TidOf(cfg) == TID_MAP[cfg.frame][cfg.constellation][cfg.rate]

----------------------------------------------------------------------------
(* Real numbers and the fixed-point conversion (dvb/dvb_encoder.py).       *)
(* A real is (-1)^neg * (int + 0.frac) * p / q: int.frac is a decimal      *)
(* literal, frac its digits after the point in groups of four, most        *)
(* significant first; p / q is the ring radius that scales it (1 / 1 when  *)
(* there is none).                                                         *)

Limb == 10000

Real(neg, int, frac, p, q) == [neg |-> neg, int |-> int, frac |-> frac, p |-> p, q |-> q]

Real0 == Real(FALSE, 0, <<>>, 1, 1)

RECURSIVE Reverse(_)
Reverse(s) == IF s = <<>> THEN <<>> ELSE Reverse(Tail(s)) \o <<Head(s)>>

\* x * k + carry, x the groups of a number, least significant first
RECURSIVE MulSmall(_, _, _)
MulSmall(x, k, carry) ==
    IF x = <<>>
    THEN IF carry = 0 THEN <<>> ELSE <<carry % Limb>> \o MulSmall(<<>>, k, carry \div Limb)
    ELSE LET t == Head(x) * k + carry
         IN  <<t % Limb>> \o MulSmall(Tail(x), k, t \div Limb)

\* long division by q of the groups x, most significant first
RECURSIVE DivSmall(_, _, _)
DivSmall(x, q, rem) ==
    IF x = <<>> THEN [quo |-> <<>>, rem |-> rem]
    ELSE LET t == rem * Limb + Head(x)
             rest == DivSmall(Tail(x), q, t % q)
         IN  [quo |-> <<t \div q>> \o rest.quo, rem |-> rest.rem]

\* the integer of groups, most significant first
RECURSIVE ToNat(_)
ToNat(x) == IF x = <<>> THEN 0 ELSE ToNat(SubSeq(x, 1, Len(x) - 1)) * Limb + x[Len(x)]

\* scale * |value|: its integer part, the groups of its fraction, and the
\* remainder of the division by q (the fraction is frac plus rem / q of a
\* unit of its last group)
Scaled(value, scale) ==
    LET prod == MulSmall(MulSmall(Reverse(<<value.int>> \o value.frac), scale, 0), value.p, 0)
        d == DivSmall(Reverse(prod), value.q, 0)
        k == Len(value.frac)
        n == Len(d.quo)
    IN  [int |-> ToNat(SubSeq(d.quo, 1, n - k)),
         frac |-> SubSeq(d.quo, n - k + 1, n),
         rem |-> d.rem, q |-> value.q]

\* the fraction of x against 1/2: -1 below, 0 equal, 1 above
RECURSIVE CmpHalf(_, _, _, _)
CmpHalf(frac, rem, q, first) ==
    IF frac = <<>>
    THEN IF first
         THEN (IF 2 * rem < q THEN -1 ELSE IF 2 * rem = q THEN 0 ELSE 1)
         ELSE (IF rem = 0 THEN 0 ELSE 1)
    ELSE LET half == IF first THEN Limb \div 2 ELSE 0
         IN  IF Head(frac) < half THEN -1
             ELSE IF Head(frac) > half THEN 1
             ELSE CmpHalf(Tail(frac), rem, q, FALSE)

\* round() of a non-negative number: to the nearest integer, a tie to the
\* even one
PyRound(x) ==
    LET c == CmpHalf(x.frac, x.rem, x.q, TRUE)
    IN  IF c > 0 \/ (c = 0 /\ x.int % 2 = 1) THEN x.int + 1 ELSE x.int

\* a conversion that returns the rounded value as it is, negative or not
toFixedPoint_NoWrap(value, width) ==
    LET mag == PyRound(Scaled(value, Pow2(width - 1) - 1))
    IN  IF value.neg THEN 0 - mag ELSE mag

\* a conversion that scales by 1 << width - 1
toFixedPoint_FullScale(value, width) ==
    LET mag == PyRound(Scaled(value, Pow2(width - 1)))
        v == IF value.neg THEN 0 - mag ELSE mag
    IN  IF v >= 0 THEN v ELSE v + Pow2(width)

\* toFixedPoint(value, width)
toFixedPoint(value, width) ==
    LET mag == PyRound(Scaled(value, Pow2(width - 1) - 1))
        v == IF value.neg THEN 0 - mag ELSE mag
    IN  IF v >= 0 THEN v ELSE v + Pow2(width)

----------------------------------------------------------------------------
(* The modulation tables (dvb/dvb_encoder.py, _getModulationTable) *)

\* a decimal literal: (-1)^neg * int.frac
Dec(neg, int, frac) == Real(neg, int, frac, 1, 1)

\* a ring radius p / q
Radius(p, q) == [p |-> p, q |-> q]

\* r * x for a ring radius r and a literal x
Times(r, x) == [x EXCEPT !.p = r.p, !.q = r.q]

\* math.cos(n * math.pi / d) for the angles of the tables, to 20 decimal places
MathCos(n, d) ==
    CASE <<n, d>> = <<0, 1>> -> Dec(FALSE, 1, <<0, 0, 0, 0, 0>>)
      [] <<n, d>> = <<1, 1>> -> Dec(TRUE, 1, <<0, 0, 0, 0, 0>>)
      [] <<n, d>> = <<0 - 1, 2>> -> Dec(FALSE, 0, <<0, 0, 0, 0, 6123>>)
      [] <<n, d>> = <<1, 2>> -> Dec(FALSE, 0, <<0, 0, 0, 0, 6123>>)
      [] <<n, d>> = <<0 - 3, 4>> -> Dec(TRUE, 0, <<7071, 678, 1186, 5475, 0>>)
      [] <<n, d>> = <<0 - 1, 4>> -> Dec(FALSE, 0, <<7071, 678, 1186, 5476, 0>>)
      [] <<n, d>> = <<1, 4>> -> Dec(FALSE, 0, <<7071, 678, 1186, 5476, 0>>)
      [] <<n, d>> = <<2, 4>> -> Dec(FALSE, 0, <<0, 0, 0, 0, 6123>>)
      [] <<n, d>> = <<3, 4>> -> Dec(TRUE, 0, <<7071, 678, 1186, 5475, 0>>)
      [] <<n, d>> = <<4, 4>> -> Dec(TRUE, 1, <<0, 0, 0, 0, 0>>)
      [] <<n, d>> = <<5, 4>> -> Dec(TRUE, 0, <<7071, 678, 1186, 5477, 0>>)
      [] <<n, d>> = <<6, 4>> -> Dec(TRUE, 0, <<0, 0, 0, 1, 8370>>)
      [] <<n, d>> = <<7, 4>> -> Dec(FALSE, 0, <<7071, 678, 1186, 5474, 0>>)
      [] <<n, d>> = <<0 - 7, 8>> -> Dec(TRUE, 0, <<9238, 7953, 2511, 2867, 0>>)
      [] <<n, d>> = <<0 - 5, 8>> -> Dec(TRUE, 0, <<3826, 8343, 2365, 897, 0>>)
      [] <<n, d>> = <<0 - 3, 8>> -> Dec(FALSE, 0, <<3826, 8343, 2365, 898, 4000>>)
      [] <<n, d>> = <<0 - 1, 8>> -> Dec(FALSE, 0, <<9238, 7953, 2511, 2867, 0>>)
      [] <<n, d>> = <<1, 8>> -> Dec(FALSE, 0, <<9238, 7953, 2511, 2867, 0>>)
      [] <<n, d>> = <<3, 8>> -> Dec(FALSE, 0, <<3826, 8343, 2365, 898, 4000>>)
      [] <<n, d>> = <<5, 8>> -> Dec(TRUE, 0, <<3826, 8343, 2365, 897, 0>>)
      [] <<n, d>> = <<7, 8>> -> Dec(TRUE, 0, <<9238, 7953, 2511, 2867, 0>>)
      [] <<n, d>> = <<0 - 11, 12>> -> Dec(TRUE, 0, <<9659, 2582, 6289, 682, 0>>)
      [] <<n, d>> = <<0 - 7, 12>> -> Dec(TRUE, 0, <<2588, 1904, 5102, 5206, 3000>>)
      [] <<n, d>> = <<0 - 5, 12>> -> Dec(FALSE, 0, <<2588, 1904, 5102, 5207, 4000>>)
      [] <<n, d>> = <<0 - 1, 12>> -> Dec(FALSE, 0, <<9659, 2582, 6289, 683, 0>>)
      [] <<n, d>> = <<1, 12>> -> Dec(FALSE, 0, <<9659, 2582, 6289, 683, 0>>)
      [] <<n, d>> = <<5, 12>> -> Dec(FALSE, 0, <<2588, 1904, 5102, 5207, 4000>>)
      [] <<n, d>> = <<7, 12>> -> Dec(TRUE, 0, <<2588, 1904, 5102, 5206, 3000>>)
      [] <<n, d>> = <<11, 12>> -> Dec(TRUE, 0, <<9659, 2582, 6289, 682, 0>>)

\* math.sin(n * math.pi / d) for the angles of the tables, to 20 decimal places
MathSin(n, d) ==
    CASE <<n, d>> = <<0, 1>> -> Dec(FALSE, 0, <<0, 0, 0, 0, 0>>)
      [] <<n, d>> = <<1, 1>> -> Dec(FALSE, 0, <<0, 0, 0, 1, 2246>>)
      [] <<n, d>> = <<0 - 1, 2>> -> Dec(TRUE, 1, <<0, 0, 0, 0, 0>>)
      [] <<n, d>> = <<1, 2>> -> Dec(FALSE, 1, <<0, 0, 0, 0, 0>>)
      [] <<n, d>> = <<0 - 3, 4>> -> Dec(TRUE, 0, <<7071, 678, 1186, 5476, 0>>)
      [] <<n, d>> = <<0 - 1, 4>> -> Dec(TRUE, 0, <<7071, 678, 1186, 5475, 0>>)
      [] <<n, d>> = <<1, 4>> -> Dec(FALSE, 0, <<7071, 678, 1186, 5475, 0>>)
      [] <<n, d>> = <<2, 4>> -> Dec(FALSE, 1, <<0, 0, 0, 0, 0>>)
      [] <<n, d>> = <<3, 4>> -> Dec(FALSE, 0, <<7071, 678, 1186, 5476, 0>>)
      [] <<n, d>> = <<4, 4>> -> Dec(FALSE, 0, <<0, 0, 0, 1, 2246>>)
      [] <<n, d>> = <<5, 4>> -> Dec(TRUE, 0, <<7071, 678, 1186, 5475, 0>>)
      [] <<n, d>> = <<6, 4>> -> Dec(TRUE, 1, <<0, 0, 0, 0, 0>>)
      [] <<n, d>> = <<7, 4>> -> Dec(TRUE, 0, <<7071, 678, 1186, 5477, 0>>)
      [] <<n, d>> = <<0 - 7, 8>> -> Dec(TRUE, 0, <<3826, 8343, 2365, 899, 0>>)
      [] <<n, d>> = <<0 - 5, 8>> -> Dec(TRUE, 0, <<9238, 7953, 2511, 2867, 0>>)
      [] <<n, d>> = <<0 - 3, 8>> -> Dec(TRUE, 0, <<9238, 7953, 2511, 2867, 0>>)
      [] <<n, d>> = <<0 - 1, 8>> -> Dec(TRUE, 0, <<3826, 8343, 2365, 898, 0>>)
      [] <<n, d>> = <<1, 8>> -> Dec(FALSE, 0, <<3826, 8343, 2365, 898, 0>>)
      [] <<n, d>> = <<3, 8>> -> Dec(FALSE, 0, <<9238, 7953, 2511, 2867, 0>>)
      [] <<n, d>> = <<5, 8>> -> Dec(FALSE, 0, <<9238, 7953, 2511, 2867, 0>>)
      [] <<n, d>> = <<7, 8>> -> Dec(FALSE, 0, <<3826, 8343, 2365, 899, 0>>)
      [] <<n, d>> = <<0 - 11, 12>> -> Dec(TRUE, 0, <<2588, 1904, 5102, 5210, 0>>)
      [] <<n, d>> = <<0 - 7, 12>> -> Dec(TRUE, 0, <<9659, 2582, 6289, 683, 0>>)
      [] <<n, d>> = <<0 - 5, 12>> -> Dec(TRUE, 0, <<9659, 2582, 6289, 683, 0>>)
      [] <<n, d>> = <<0 - 1, 12>> -> Dec(TRUE, 0, <<2588, 1904, 5102, 5207, 4000>>)
      [] <<n, d>> = <<1, 12>> -> Dec(FALSE, 0, <<2588, 1904, 5102, 5207, 4000>>)
      [] <<n, d>> = <<5, 12>> -> Dec(FALSE, 0, <<9659, 2582, 6289, 683, 0>>)
      [] <<n, d>> = <<7, 12>> -> Dec(FALSE, 0, <<9659, 2582, 6289, 683, 0>>)
      [] <<n, d>> = <<11, 12>> -> Dec(FALSE, 0, <<2588, 1904, 5102, 5210, 0>>)

\* (r * math.cos(n * math.pi / d), r * math.sin(n * math.pi / d))
Point(r, n, d) == <<Times(r, MathCos(n, d)), Times(r, MathSin(n, d))>>

\* the radius 1.0
One == Radius(1, 1)

\* the table of MOD_QPSK
TableQPSK ==
    << Point(One, 1, 4), Point(One, 7, 4), Point(One, 3, 4), Point(One, 5, 4) >>

\* the table of MOD_8PSK
Table8PSK ==
    << Point(One, 1, 4), Point(One, 0, 1), Point(One, 4, 4), Point(One, 5, 4),
       Point(One, 2, 4), Point(One, 7, 4), Point(One, 3, 4), Point(One, 6, 4) >>

\* a 16APSK table with the inner radius on the outer ring
Table16APSK_RingsSwapped(r1, r2) ==
    << Point(r1, 1, 4), Point(r1, 0 - 1, 4), Point(r1, 3, 4), Point(r1, 0 - 3, 4),
       Point(r1, 1, 12), Point(r1, 0 - 1, 12), Point(r1, 11, 12), Point(r1, 0 - 11, 12),
       Point(r1, 5, 12), Point(r1, 0 - 5, 12), Point(r1, 7, 12), Point(r1, 0 - 7, 12),
       Point(r2, 1, 4), Point(r2, 0 - 1, 4), Point(r2, 3, 4), Point(r2, 0 - 3, 4) >>

\* the table of MOD_16APSK for the radii r1 (inner ring) and r2
Table16APSK(r1, r2) ==
    << Point(r2, 1, 4), Point(r2, 0 - 1, 4), Point(r2, 3, 4), Point(r2, 0 - 3, 4),
       Point(r2, 1, 12), Point(r2, 0 - 1, 12), Point(r2, 11, 12), Point(r2, 0 - 11, 12),
       Point(r2, 5, 12), Point(r2, 0 - 5, 12), Point(r2, 7, 12), Point(r2, 0 - 7, 12),
       Point(r1, 1, 4), Point(r1, 0 - 1, 4), Point(r1, 3, 4), Point(r1, 0 - 3, 4) >>

\* the table of MOD_32APSK for the radii r1, r2 and r3
Table32APSK(r1, r2, r3) ==
    << Point(r2, 1, 4), Point(r2, 5, 12), Point(r2, 0 - 1, 4), Point(r2, 0 - 5, 12),
       Point(r2, 3, 4), Point(r2, 7, 12), Point(r2, 0 - 3, 4), Point(r2, 0 - 7, 12),
       Point(r3, 1, 8), Point(r3, 3, 8), Point(r3, 0 - 1, 4), Point(r3, 0 - 1, 2),
       Point(r3, 3, 4), Point(r3, 1, 2), Point(r3, 0 - 7, 8), Point(r3, 0 - 5, 8),
       Point(r2, 1, 12), Point(r1, 1, 4), Point(r2, 0 - 1, 12), Point(r1, 0 - 1, 4),
       Point(r2, 11, 12), Point(r1, 3, 4), Point(r2, 0 - 11, 12), Point(r1, 0 - 3, 4),
       Point(r3, 0, 1), Point(r3, 1, 4), Point(r3, 0 - 1, 8), Point(r3, 0 - 3, 8),
       Point(r3, 7, 8), Point(r3, 5, 8), Point(r3, 1, 1), Point(r3, 0 - 3, 4) >>

\* the radius 0.0 of a code rate the dictionaries do not hold
NoRadius == Radius(0, 1)

\* r1 of 16APSK, normal frames: r2 / 3.15 ... with r2 = 1.0
R1_16APSK_Normal(code_rate) ==
    CASE code_rate = "C2_3" -> Radius(100, 315)
      [] code_rate = "C3_4" -> Radius(100, 285)
      [] code_rate = "C4_5" -> Radius(100, 275)
      [] code_rate = "C5_6" -> Radius(100, 270)
      [] code_rate = "C8_9" -> Radius(100, 260)
      [] code_rate = "C9_10" -> Radius(100, 257)
      [] code_rate = "C3_5" -> Radius(100, 370)
      [] OTHER -> NoRadius

\* r1 of 16APSK, short frames
R1_16APSK_Short(code_rate) ==
    CASE code_rate = "C2_3" -> Radius(100, 315)
      [] code_rate = "C3_4" -> Radius(100, 285)
      [] code_rate = "C4_5" -> Radius(100, 275)
      [] code_rate = "C5_6" -> Radius(100, 270)
      [] code_rate = "C8_9" -> Radius(100, 260)
      [] code_rate = "C3_5" -> Radius(100, 370)
      [] OTHER -> NoRadius

\* radii of 32APSK that default to 1.0 for a code rate without an entry
R1_32APSK_DefaultOne(code_rate) ==
    CASE code_rate = "C3_4" -> Radius(100, 527)
      [] code_rate = "C4_5" -> Radius(100, 487)
      [] code_rate = "C5_6" -> Radius(100, 464)
      [] code_rate = "C8_9" -> Radius(100, 433)
      [] code_rate = "C9_10" -> Radius(100, 430)
      [] OTHER -> One

\* r1 of 32APSK: r3 / 5.27 ... with r3 = 1.0
R1_32APSK(code_rate) ==
    CASE code_rate = "C3_4" -> Radius(100, 527)
      [] code_rate = "C4_5" -> Radius(100, 487)
      [] code_rate = "C5_6" -> Radius(100, 464)
      [] code_rate = "C8_9" -> Radius(100, 433)
      [] code_rate = "C9_10" -> Radius(100, 430)
      [] OTHER -> NoRadius

\* r2 of 32APSK: r1 * 2.84 ...
R2_32APSK(code_rate) ==
    CASE code_rate = "C3_4" -> Radius(284, 527)
      [] code_rate = "C4_5" -> Radius(272, 487)
      [] code_rate = "C5_6" -> Radius(264, 464)
      [] code_rate = "C8_9" -> Radius(254, 433)
      [] code_rate = "C9_10" -> Radius(253, 430)
      [] OTHER -> NoRadius

\* a table lookup that answers 8PSK with the QPSK table
getModulationTable_QpskFor8Psk(frame_type, constellation, code_rate) ==
    CASE constellation \in {"MOD_QPSK", "MOD_8PSK"} -> TableQPSK
      [] constellation = "MOD_16APSK" ->
            Table16APSK(IF frame_type = "FECFRAME_NORMAL" THEN R1_16APSK_Normal(code_rate)
                        ELSE IF frame_type = "FECFRAME_SHORT" THEN R1_16APSK_Short(code_rate)
                        ELSE One,
                        One)
      [] constellation = "MOD_32APSK" ->
            Table32APSK(R1_32APSK(code_rate), R2_32APSK(code_rate), One)
      [] OTHER -> <<>>

\* _getModulationTable(frame_type, constellation, code_rate)
getModulationTable(frame_type, constellation, code_rate) ==
    CASE constellation = "MOD_QPSK" -> TableQPSK
      [] constellation = "MOD_8PSK" -> Table8PSK
      [] constellation = "MOD_16APSK" ->
            Table16APSK(IF frame_type = "FECFRAME_NORMAL" THEN R1_16APSK_Normal(code_rate)
                        ELSE IF frame_type = "FECFRAME_SHORT" THEN R1_16APSK_Short(code_rate)
                        ELSE One,
                        One)
      [] constellation = "MOD_32APSK" ->
            Table32APSK(R1_32APSK(code_rate), R2_32APSK(code_rate), One)
      [] OTHER -> <<>>

\* reg = (toFixedPoint(cos, 16) << 16) | toFixedPoint(sin, 16)
PackedWord(cos, sin) == OR(SHL(W32(toFixedPoint(cos, 16)), 16), W32(toFixedPoint(sin, 16)))

\* a RAM layout in which 8PSK starts at symbol 2
RamIndexBase_Overlapping(constellation) ==
    CASE constellation = "MOD_QPSK" -> 0
      [] constellation = "MOD_8PSK" -> 2
      [] constellation = "MOD_16APSK" -> 12
      [] constellation = "MOD_32APSK" -> 28

\* the offset of a constellation's first symbol in the bit mapper RAM
RamIndexBase(constellation) ==
    CASE constellation = "MOD_QPSK" -> 0
      [] constellation = "MOD_8PSK" -> 4
      [] constellation = "MOD_16APSK" -> 12
      [] constellation = "MOD_32APSK" -> 28

\* bit_mapper_ram_base_addr
BitMapperRamBase == 12

\* the constellations of the if / elif chain of updateBitMapperRam
Supported(constellation) ==
    constellation \in {"MOD_QPSK", "MOD_8PSK", "MOD_16APSK", "MOD_32APSK"}

\* an update that steps the address by 1 per symbol
updateBitMapperRam_ByteStride(frame_type, constellation, code_rate) ==
    LET table == getModulationTable(frame_type, constellation, code_rate)
        addr == RamIndexBase(constellation)
    IN  [i \in 1..Len(table) |->
            Wr("enc", BitMapperRamBase + addr + i - 1,
               PackedWord(table[i][1], table[i][2]))]

\* an update that counts the symbols from 0 for every constellation
updateBitMapperRam_NoIndexBase(frame_type, constellation, code_rate) ==
    LET table == getModulationTable(frame_type, constellation, code_rate)
    IN  [i \in 1..Len(table) |->
            Wr("enc", BitMapperRamBase + 4 * (i - 1), PackedWord(table[i][1], table[i][2]))]

\* DvbEncoder.updateBitMapperRam: the writes of the loop over
\* enumerate(_getModulationTable(...), addr)
updateBitMapperRam(frame_type, constellation, code_rate) ==
    LET table == getModulationTable(frame_type, constellation, code_rate)
        addr == RamIndexBase(constellation)
    IN  [i \in 1..Len(table) |->
            Wr("enc", BitMapperRamBase + 4 * (addr + i - 1),
               PackedWord(table[i][1], table[i][2]))]

\* coeffs of write_polyphase_filter_coefficients
PolyphaseCoeffs ==
    << Dec(TRUE, 0, <<7, 2821, 6778, 9530, 0>>),
       Dec(FALSE, 0, <<18, 1682, 6756, 1100, 0>>),
       Dec(TRUE, 0, <<2, 9152, 3610, 9400, 0>>),
       Dec(TRUE, 0, <<16, 9956, 6608, 2900, 0>>),
       Dec(FALSE, 0, <<19, 8084, 926, 9900, 0>>),
       Dec(FALSE, 0, <<3, 2164, 2903, 1450, 0>>),
       Dec(TRUE, 0, <<42, 3926, 2547, 3400, 0>>),
       Dec(FALSE, 0, <<30, 4758, 6651, 5200, 0>>),
       Dec(FALSE, 0, <<68, 3168, 890, 1700, 0>>),
       Dec(TRUE, 0, <<94, 7270, 9149, 1200, 0>>),
       Dec(TRUE, 0, <<94, 2199, 1184, 3500, 0>>),
       Dec(FALSE, 0, <<211, 9631, 3202, 4000, 0>>),
       Dec(FALSE, 0, <<116, 3324, 3411, 8000, 0>>),
       Dec(TRUE, 0, <<461, 3029, 9568, 2000, 0>>),
       Dec(TRUE, 0, <<131, 2147, 6396, 9000, 0>>),
       Dec(FALSE, 0, <<1565, 9716, 7253, 0, 0>>),
       Dec(FALSE, 0, <<2633, 5948, 7057, 0, 0>>),
       Dec(FALSE, 0, <<1565, 9716, 7253, 0, 0>>),
       Dec(TRUE, 0, <<131, 2147, 6396, 9000, 0>>),
       Dec(TRUE, 0, <<461, 3029, 9568, 2000, 0>>),
       Dec(FALSE, 0, <<116, 3324, 3411, 8000, 0>>),
       Dec(FALSE, 0, <<211, 9631, 3202, 4000, 0>>),
       Dec(TRUE, 0, <<94, 2199, 1184, 3500, 0>>),
       Dec(TRUE, 0, <<94, 7270, 9149, 1200, 0>>),
       Dec(FALSE, 0, <<68, 3168, 890, 1700, 0>>),
       Dec(FALSE, 0, <<30, 4758, 6651, 5200, 0>>),
       Dec(TRUE, 0, <<42, 3926, 2547, 3400, 0>>),
       Dec(FALSE, 0, <<3, 2164, 2903, 1450, 0>>),
       Dec(FALSE, 0, <<19, 8084, 926, 9900, 0>>),
       Dec(TRUE, 0, <<16, 9956, 6608, 2900, 0>>),
       Dec(TRUE, 0, <<2, 9152, 3610, 9400, 0>>),
       Dec(FALSE, 0, <<18, 1682, 6756, 1100, 0>>),
       Dec(TRUE, 0, <<7, 2821, 6778, 9530, 0>>) >>

\* addr = 0x3CC
PolyphaseBase == 972

\* a coefficient writer that leaves the upper half of the word empty
write_polyphase_filter_coefficients_LowHalf ==
    [i \in 1..Len(PolyphaseCoeffs) |->
        Wr("enc", PolyphaseBase + 4 * (i - 1), W32(toFixedPoint(PolyphaseCoeffs[i], 16)))]

\* DvbEncoder.write_polyphase_filter_coefficients
write_polyphase_filter_coefficients ==
    [i \in 1..Len(PolyphaseCoeffs) |->
        Wr("enc", PolyphaseBase + 4 * (i - 1),
           PackedWord(PolyphaseCoeffs[i], PolyphaseCoeffs[i]))]

\* DvbEncoder.init
DvbEncoder_init == write_polyphase_filter_coefficients

\* the offsets of the bit mapper RAM (60 symbols) and of the coefficient
\* registers in the DvbEncoder region
EncRamOffsets ==
    {BitMapperRamBase + 4 * i : i \in 0..59}
        \cup {PolyphaseBase + 4 * i : i \in 0..(Len(PolyphaseCoeffs) - 1)}

\* a constructor that writes 0 to offset 0 on every backend
construct_AlwaysWrites(b, region) == <<Wr(region, 0, Zero)>>

\* BaseMemoryRegion.__init__: xdma.py ends with self._write(0, 0); arm.py,
\* peek_poke.py and fake_access.py access no register
construct(b, region) ==
    IF b = "UserspaceDmaMap" THEN <<Wr(region, 0, Zero)>> ELSE <<>>

\* DvbEncoder.getFramesInTransit
getFramesInTransit == <<Rd("enc", 8, "none")>>

\* AxiDebug.getStrobes, getFrameCount and getLastFrameLength of the block at b
getStrobes(b) == <<Rd("enc", b + 20, "none")>>
getFrameCount(b) == <<Rd("enc", b + 4, "none")>>
getLastFrameLength(b) == <<Rd("enc", b + 8, "none")>>

\* the seven AxiDebug instances in the order getStatus visits them
DebugBlockSeq == [i \in 1..7 |-> 3328 + 256 * (i - 1)]

\* axi_debug.update() inside getStatus / printStatus; the cached fields the
\* model keeps are those of the block at `watched`
updateIn(b, watched) ==
    IF b = watched THEN update(b)
    ELSE [i \in 1..Len(update(b)) |-> [update(b)[i] EXCEPT !.post = "none"]]

\* one round of the loop over the debug blocks in getStatus / printStatus
StatusRow(b, watched) ==
    getStrobes(b) \o updateIn(b, watched) \o getFrameCount(b) \o getLastFrameLength(b)

RECURSIVE StatusRows(_, _)
StatusRows(i, watched) ==
    IF i > Len(DebugBlockSeq) THEN <<>>
    ELSE StatusRow(DebugBlockSeq[i], watched) \o StatusRows(i + 1, watched)

\* DvbEncoder.getStatus
getStatus(watched) ==
    FieldGetter(physical_layer_scrambler_shift_reg_init)
        \o FieldGetter(enable_dummy_frames)
        \o getFramesInTransit
        \o StatusRows(1, watched)

\* DvbEncoder.readConstellationMapperRam(addr)
readConstellationMapperRam(addr) ==
    <<Wr("enc", 12, W32(addr)), Rd("enc", 20, "none")>>

\* the arguments of func(..) in one row of constellation_map, left to right
MapRow(r) ==
    (IF r < 4 THEN <<r>> ELSE <<>>)
        \o (IF r < 8 THEN <<4 + r>> ELSE <<>>)
        \o (IF r < 16 THEN <<12 + r>> ELSE <<>>)
        \o <<28 + r>>

RECURSIVE MapFrom(_)
MapFrom(r) == IF r > 31 THEN <<>> ELSE MapRow(r) \o MapFrom(r + 1)

RECURSIVE ReadMap(_)
ReadMap(order) ==
    IF order = <<>> THEN <<>>
    ELSE readConstellationMapperRam(Head(order)) \o ReadMap(Tail(order))

\* DvbEncoder.printStatus(print_map)
printStatus(print_map, watched) ==
    FieldGetter(physical_layer_scrambler_shift_reg_init)
        \o FieldGetter(enable_dummy_frames)
        \o getFramesInTransit
        \o StatusRows(1, watched)
        \o (IF print_map THEN ReadMap(MapFrom(0)) ELSE <<>>)

----------------------------------------------------------------------------
(* The command lines of the external tool (dvb/peek_poke.py). A text is    *)
(* the sequence of its characters.                                         *)

HexChars == <<"0", "1", "2", "3", "4", "5", "6", "7", "8", "9", "A", "B", "C", "D", "E", "F">>

\* "%X" % n: the hexadecimal digits of n, none leading
RECURSIVE FormatX(_)
FormatX(n) ==
    IF n < 16 THEN <<HexChars[n + 1]>>
    ELSE FormatX(n \div 16) \o <<HexChars[(n % 16) + 1]>>

\* text, with c in front of it up to the length width
RECURSIVE PadLeft(_, _, _)
PadLeft(text, width, c) ==
    IF Len(text) >= width THEN text ELSE PadLeft(<<c>> \o text, width, c)

\* "0x%.8X" % n: the precision 8 pads the digits with zeros
FormatPrecision8(n) == <<"0", "x">> \o PadLeft(FormatX(n), 8, "0")

\* "0x%8X" % n: the width 8 pads the digits with spaces
FormatWidth8(n) == <<"0", "x">> \o PadLeft(FormatX(n), 8, " ")

\* "0x%.8X" % data of a 32-bit word
FormatWord(w) == <<"0", "x">> \o [i \in 1..8 |-> HexChars[Hex8(w)[i] + 1]]

\* _poke: ("poke", "0x%.8X" % addr, "0x%.8X" % data)
poke(addr, data) == <<<<"p", "o", "k", "e">>, FormatPrecision8(addr), FormatWord(data)>>

\* _peek: ("peek", "0x%8X" % addr)
peek(addr) == <<<<"p", "e", "e", "k">>, FormatWidth8(addr)>>

----------------------------------------------------------------------------
(* Threads *)

NoOp ==
    [name |-> "none", f |-> NoField, v |-> Zero, data |-> <<>>, tid |-> Zero, n |-> None,
     cfg |-> NoCfg, x |-> Real0]

IdleThread ==
    [st |-> "idle", op |-> NoOp, prog |-> <<>>, cur |-> Zero, ret |-> <<>>, log |-> <<>>]

\* AxiDebug.__init__ and AxiDebug.clear
AxiDebugEmpty ==
    [word_count |-> Zero, max_frame_length |-> None, min_frame_length |-> None]

\* a thread calls an operation: st is "ret" at once when it issues no access
Call(t, op, prog) ==
    /\ t \in active
    /\ th[t].st \in {"idle", "ret", "err"}
    /\ th' = [th EXCEPT ![t] =
                [st |-> IF prog = <<>> THEN "ret" ELSE "run", op |-> op, prog |-> prog,
                 cur |-> Zero, ret |-> <<>>, log |-> <<>>]]

\* _dictRead / _peek: assert (addr >> 16) & 0xFF in (0xC0, 0xC1, 0xC2)
readFails(b, addr) == ChecksPage(b) /\ ~ValidPage(addr)

\* arm.py / xdma.py _write: data.to_bytes(4, "little")
writeFails(b, data) == b \in {"DirectMap", "UserspaceDmaMap"} /\ ~Fits32(data)

\* what the caller of self._read does with the value
AfterRead(me, ins, addr, value) ==
    LET prog2 == IF ins.post = "entries"
                 THEN receiveLoop(ToInt(value)) \o Tail(me.prog)
                 ELSE Tail(me.prog)
    IN  [me EXCEPT
            !.prog = prog2,
            !.st = IF prog2 = <<>> THEN "ret" ELSE "run",
            !.cur = IF ins.post = "current" THEN value ELSE @,
            !.ret = CASE ins.post = "field" -> GetterValue(value, ins.f)
                      [] ins.post = "rx" -> @ \o Swizzle(value)
                      [] OTHER -> @,
            !.log = Append(@, [k |-> "R", a |-> addr, d |-> value])]

\* an update that aggregates: it keeps the larger max and the smaller min
DbgAfterRead_Aggregate(d, ins, value) ==
    LET new == getFrameLengths(value)
    IN  CASE ins.post = "word_count" -> [d EXCEPT !.word_count = value]
          [] ins.post = "lengths" ->
                [d EXCEPT
                    !.max_frame_length =
                        IF @ # None /\ @[1][2] > new.max[2] THEN @ ELSE Some(new.max),
                    !.min_frame_length =
                        IF @ # None /\ @[1][2] < new.min[2] THEN @ ELSE Some(new.min)]
          [] OTHER -> d

\* AxiDebug.update: the assignments to the cached fields
DbgAfterRead(d, ins, value) ==
    CASE ins.post = "word_count" -> [d EXCEPT !.word_count = value]
      [] ins.post = "lengths" ->
            [d EXCEPT !.max_frame_length = Some(getFrameLengths(value).max),
                      !.min_frame_length = Some(getFrameLengths(value).min)]
      [] OTHER -> d

\* a write that is issued again after it was made
AfterWrite_Retry(me, addr, data) == [me EXCEPT !.st = "run"]

\* what follows a self._write that returned
AfterWrite(me, addr, data) ==
    [me EXCEPT
        !.prog = Tail(@),
        !.st = IF Tail(me.prog) = <<>> THEN "ret" ELSE "run",
        !.log = Append(@, [k |-> "W", a |-> addr, d |-> data])]

\* BaseMemoryRegion._read / _write, first half: "with self._lock" is entered
\* (peek_poke.py: the peek / poke subprocess is started, there is no lock)
Begin(t) ==
    /\ th[t].st = "run"
    /\ IF HasLock(backend) THEN lock = NoThread /\ lock' = t ELSE UNCHANGED lock
    /\ th' = [th EXCEPT ![t].st = "acc"]
    /\ UNCHANGED <<backend, mem, dbg, blk, active>>

\* BaseMemoryRegion._read / _write, second half: the access at
\* self._base_addr + addr and the release of the lock (also when it raises)
End(t) ==
    /\ th[t].st = "acc"
    /\ LET me == th[t]
           ins == Head(me.prog)
           addr == BaseAddr(ins.region) + ins.a
           data == IF ins.k = "WF" THEN SetterWord(me.cur, ins.f, ins.d) ELSE ins.d
           value == dictRead(mem, addr)
       IN  /\ lock' = IF HasLock(backend) THEN NoThread ELSE lock
           /\ IF ins.k = "R"
              THEN IF readFails(backend, addr)
                   THEN /\ th' = [th EXCEPT ![t] = [me EXCEPT !.st = "err", !.prog = <<>>]]
                        /\ UNCHANGED <<mem, dbg>>
                   ELSE /\ th' = [th EXCEPT ![t] = AfterRead(me, ins, addr, value)]
                        /\ dbg' = DbgAfterRead(dbg, ins, value)
                        /\ mem' = mem
              ELSE IF writeFails(backend, data)
                   THEN /\ th' = [th EXCEPT ![t] = [me EXCEPT !.st = "err", !.prog = <<>>]]
                        /\ UNCHANGED <<mem, dbg>>
                   ELSE /\ th' = [th EXCEPT ![t] = AfterWrite(me, addr, data)]
                        /\ mem' = storeWrite(backend, mem, addr, data)
                        /\ dbg' = dbg
    /\ UNCHANGED <<backend, blk, active>>

----------------------------------------------------------------------------
(* Calls *)

\* x.<field> = value
CallSetter(t, f, value) ==
    /\ Call(t, [NoOp EXCEPT !.name = "set", !.f = f, !.v = value], FieldSetter(f, value))
    /\ UNCHANGED <<backend, mem, lock, dbg, blk, active>>

\* x.<field> = value; x.<field>
CallSetGet(t, f, value) ==
    /\ Call(t, [NoOp EXCEPT !.name = "setget", !.f = f, !.v = value],
            FieldSetter(f, value) \o FieldGetter(f))
    /\ UNCHANGED <<backend, mem, lock, dbg, blk, active>>

\* AxiDebug.update()
CallUpdate(t) ==
    /\ Call(t, [NoOp EXCEPT !.name = "update"], update(blk))
    /\ UNCHANGED <<backend, mem, lock, dbg, blk, active>>

\* a clear() that resets the word count only
CallClear_KeepsLengths(t) ==
    /\ Call(t, [NoOp EXCEPT !.name = "clear"], <<>>)
    /\ dbg' = [dbg EXCEPT !.word_count = Zero]
    /\ UNCHANGED <<backend, mem, lock, blk, active>>

\* AxiDebug.clear()
CallClear(t) ==
    /\ Call(t, [NoOp EXCEPT !.name = "clear"], <<>>)
    /\ dbg' = AxiDebugEmpty
    /\ UNCHANGED <<backend, mem, lock, blk, active>>

\* AxiFifo.reset()
CallReset(t) ==
    /\ Call(t, [NoOp EXCEPT !.name = "reset"], reset)
    /\ UNCHANGED <<backend, mem, lock, dbg, blk, active>>

\* AxiFifo.init()
CallInit(t) ==
    /\ Call(t, [NoOp EXCEPT !.name = "init"], init)
    /\ UNCHANGED <<backend, mem, lock, dbg, blk, active>>

\* AxiFifo.send(data, tid)
CallSend(t, data, tid) ==
    /\ Call(t, [NoOp EXCEPT !.name = "send", !.data = data, !.tid = tid], send(data, tid))
    /\ UNCHANGED <<backend, mem, lock, dbg, blk, active>>

\* AxiFifo.receive(entries)
CallReceive(t, entries) ==
    /\ Call(t, [NoOp EXCEPT !.name = "receive", !.n = entries], receive(entries))
    /\ UNCHANGED <<backend, mem, lock, dbg, blk, active>>

\* tid = TID_MAP[frame_type][constellation][code_rate] (Runner.sendFromFile)
CallTidLookup(t, cfg) ==
    /\ t \in active
    /\ th[t].st \in {"idle", "ret", "err"}
    /\ th' = [th EXCEPT ![t] =
                [IdleThread EXCEPT
                    !.st = IF HasTid(cfg) THEN "ret" ELSE "err",
                    !.op = [NoOp EXCEPT !.name = "tid", !.cfg = cfg],
                    !.ret = IF HasTid(cfg) THEN Some(TidOf(cfg)) ELSE <<>>]]
    /\ UNCHANGED <<backend, mem, lock, dbg, blk, active>>

\* toFixedPoint(value, 16), the width of every call in dvb_encoder.py
CallToFixedPoint(t, value) ==
    /\ t \in active
    /\ th[t].st \in {"idle", "ret", "err"}
    /\ th' = [th EXCEPT ![t] =
                [IdleThread EXCEPT
                    !.st = "ret",
                    !.op = [NoOp EXCEPT !.name = "toFixedPoint", !.x = value],
                    !.ret = Some(toFixedPoint(value, 16))]]
    /\ UNCHANGED <<backend, mem, lock, dbg, blk, active>>

\* _getModulationTable(frame_type, constellation, code_rate)
CallGetModulationTable(t, cfg) ==
    /\ t \in active
    /\ th[t].st \in {"idle", "ret", "err"}
    /\ th' = [th EXCEPT ![t] =
                [IdleThread EXCEPT
                    !.st = "ret",
                    !.op = [NoOp EXCEPT !.name = "getModulationTable", !.cfg = cfg],
                    !.ret = getModulationTable(cfg.frame, cfg.constellation, cfg.rate)]]
    /\ UNCHANGED <<backend, mem, lock, dbg, blk, active>>

\* an updateBitMapperRam that takes an unknown constellation for QPSK
CallUpdateBitMapperRam_DefaultsToQpsk(t, cfg) ==
    /\ Call(t, [NoOp EXCEPT !.name = "updateBitMapperRam", !.cfg = cfg],
            updateBitMapperRam(cfg.frame,
                               IF Supported(cfg.constellation)
                               THEN cfg.constellation ELSE "MOD_QPSK",
                               cfg.rate))
    /\ UNCHANGED <<backend, mem, lock, dbg, blk, active>>

\* DvbEncoder.updateBitMapperRam(frame_type, constellation, code_rate):
\* "assert False" for a constellation that is none of the four, before the
\* loop that writes
CallUpdateBitMapperRam(t, cfg) ==
    /\ IF Supported(cfg.constellation)
       THEN Call(t, [NoOp EXCEPT !.name = "updateBitMapperRam", !.cfg = cfg],
                 updateBitMapperRam(cfg.frame, cfg.constellation, cfg.rate))
       ELSE /\ t \in active
            /\ th[t].st \in {"idle", "ret", "err"}
            /\ th' = [th EXCEPT ![t] =
                        [IdleThread EXCEPT
                            !.st = "err",
                            !.op = [NoOp EXCEPT !.name = "updateBitMapperRam", !.cfg = cfg]]]
    /\ UNCHANGED <<backend, mem, lock, dbg, blk, active>>

\* DvbEncoder(base_addr, length) / AxiFifo(base_addr, length), and with
\* `used` the first read through the new object
CallConstruct(t, region, used) ==
    /\ Call(t, [NoOp EXCEPT !.name = IF region = "enc" THEN "DvbEncoder" ELSE "AxiFifo",
                            !.n = Some(IF used THEN 1 ELSE 0)],
            construct(backend, region)
                \o (IF ~used THEN <<>>
                    ELSE IF region = "enc" THEN getFramesInTransit ELSE getRxOccupation))
    /\ UNCHANGED <<backend, mem, lock, dbg, blk, active>>

\* DvbEncoder.write_polyphase_filter_coefficients()
CallWritePolyphase(t) ==
    /\ Call(t, [NoOp EXCEPT !.name = "write_polyphase_filter_coefficients"],
            write_polyphase_filter_coefficients)
    /\ UNCHANGED <<backend, mem, lock, dbg, blk, active>>

\* DvbEncoder.init()
CallEncoderInit(t) ==
    /\ Call(t, [NoOp EXCEPT !.name = "DvbEncoder.init"], DvbEncoder_init)
    /\ UNCHANGED <<backend, mem, lock, dbg, blk, active>>

\* DvbEncoder.getStatus()
CallGetStatus(t) ==
    /\ Call(t, [NoOp EXCEPT !.name = "getStatus"], getStatus(blk))
    /\ UNCHANGED <<backend, mem, lock, dbg, blk, active>>

\* DvbEncoder.printStatus(print_map)
CallPrintStatus(t, print_map) ==
    /\ Call(t, [NoOp EXCEPT !.name = "printStatus", !.n = Some(IF print_map THEN 1 ELSE 0)],
            printStatus(print_map, blk))
    /\ UNCHANGED <<backend, mem, lock, dbg, blk, active>>

\* region._read(offset), one more access of a sequence of raw accesses
\* through the regions
CallRead(t, region, offset) ==
    /\ t \in active
    /\ th[t].st \in {"idle", "ret", "err"}
    /\ th[t].op.name \in {"none", "accesses"}
    /\ Len(th[t].log) < MaxAccesses
    /\ th' = [th EXCEPT ![t] =
                [@ EXCEPT !.st = "run",
                          !.op = [NoOp EXCEPT !.name = "accesses"],
                          !.prog = <<Rd(region, offset, "none")>>]]
    /\ UNCHANGED <<backend, mem, lock, dbg, blk, active>>

\* region._write(offset, data), one more access of the sequence
CallWrite(t, region, offset, data) ==
    /\ t \in active
    /\ th[t].st \in {"idle", "ret", "err"}
    /\ th[t].op.name \in {"none", "accesses"}
    /\ Len(th[t].log) < MaxAccesses
    /\ th' = [th EXCEPT ![t] =
                [@ EXCEPT !.st = "run",
                          !.op = [NoOp EXCEPT !.name = "accesses"],
                          !.prog = <<Wr(region, offset, data)>>]]
    /\ UNCHANGED <<backend, mem, lock, dbg, blk, active>>

\* peek_poke._peek(addr): the command handed to run()
CallPeek(t, addr) ==
    /\ t \in active
    /\ th[t].st \in {"idle", "ret", "err"}
    /\ th' = [th EXCEPT ![t] =
                [IdleThread EXCEPT
                    !.st = IF ValidPage(addr) THEN "ret" ELSE "err",
                    !.op = [NoOp EXCEPT !.name = "peek", !.n = Some(addr)],
                    !.ret = IF ValidPage(addr) THEN peek(addr) ELSE <<>>]]
    /\ UNCHANGED <<backend, mem, lock, dbg, blk, active>>

\* peek_poke._poke(addr, data): the command handed to run()
CallPoke(t, addr, data) ==
    /\ t \in active
    /\ th[t].st \in {"idle", "ret", "err"}
    /\ th' = [th EXCEPT ![t] =
                [IdleThread EXCEPT
                    !.st = "ret",
                    !.op = [NoOp EXCEPT !.name = "poke", !.n = Some(addr), !.v = data],
                    !.ret = poke(addr, data)]]
    /\ UNCHANGED <<backend, mem, lock, dbg, blk, active>>

----------------------------------------------------------------------------
(* The hardware behind the device backends *)

\* values of the packed max/min frame length register the hardware shows
LenWords == {<<7, 2>>, <<3, 1>>}

\* words the hardware offers at the RX data port (0xAABBCCDD, 0x01020304)
RxWords == {<<43707, 52445>>, <<258, 772>>}

\* the debug block's counters move: the cumulative word count (0x10) grows,
\* the packed max/min frame length (0xC) changes
HwDebug ==
    /\ backend # "InMemoryFake"
    /\ \E wc \in 0..MaxCount, lens \in LenWords \cup {Zero} :
          /\ wc >= ToInt(mem[EncBase + blk + 16])
          /\ <<W32(wc), lens>> # <<mem[EncBase + blk + 16], mem[EncBase + blk + 12]>>
          /\ mem' = [mem EXCEPT ![EncBase + blk + 16] = W32(wc),
                                ![EncBase + blk + 12] = lens]
    /\ UNCHANGED <<backend, lock, th, dbg, blk, active>>

\* the FIFO moves: the RX occupancy and the word at the RX data port change
HwFifo ==
    /\ backend # "InMemoryFake"
    /\ \E occ \in 0..MaxEntries, rx \in RxWords :
          /\ mem' = [mem EXCEPT ![FifoBase + RX_FIFO_OCCUPANCY] = W32(occ),
                                ![FifoBase + RX_FIFO_DATA] = rx]
          /\ mem' # mem
    /\ UNCHANGED <<backend, lock, th, dbg, blk, active>>

----------------------------------------------------------------------------
(* Inputs *)

\* the fields of the encoder with a setter, for the debug block at b
Fields(b) ==
    {block_data(b), allow_word(b), allow_frame(b),
     physical_layer_scrambler_shift_reg_init, enable_dummy_frames}

\* values handed to a setter: 0x2, 0xFFFFFFFF, 0x2ABCD
SetValues == {W32(2), AllOnes, W32(175053)}

\* a byte string of length n: 0xBB 0xCC 0xDD 0xEE 0xFF 0x10 ...
Data(n) == [i \in 1..n |-> (170 + 17 * i) % 256]

Tids == {W32(5), W32(87)}

Entries == {None} \cup {Some(n) : n \in 0..MaxEntries}

\* the device's registers at start: reg0 at global offset 0, ctrl in the
\* control register of the block under test, isr in the FIFO's ISR; the
\* control registers of the other six blocks hold 5
DeviceMem(b, reg0, ctrl, isr) ==
    [a \in AllAddrs |->
        CASE a = EncBase -> reg0
          [] a = EncBase + b -> ctrl
          [] a \in {EncBase + o : o \in DebugBlocks \ {b}} -> W32(5)
          [] a = FifoBase + ISR -> isr
          [] OTHER -> Zero]

\* what global register 0 and the control register hold at start:
\* 0 and 0, or 0xAAAACCCC and 0xF0F0F0F5
RegsInit == {<<Zero, Zero>>, << <<43690, 52428>>, <<61680, 61685>> >>}

InitWith(acts, blocks, regs, isrs) ==
    /\ backend \in Backends
    /\ blk \in blocks
    /\ active = acts
    /\ lock = NoThread
    /\ th = [t \in Threads |-> IdleThread]
    /\ dbg = AxiDebugEmpty
    /\ IF backend = "InMemoryFake"
       THEN mem = [a \in {} |-> Zero]
       ELSE \E r \in regs, isr \in isrs : mem = DeviceMem(blk, r[1], r[2], isr)

----------------------------------------------------------------------------
(* Two threads on one backend: field setters and AxiFifo.send *)

Init == InitWith(Threads, {3328}, {<<Zero, Zero>>}, {Zero})

\* two fields of the debug block's control register, two of global register 0
ConcFields ==
    {block_data(blk), allow_word(blk),
     physical_layer_scrambler_shift_reg_init, enable_dummy_frames}

Next ==
    \E t \in Threads :
        \/ Begin(t)
        \/ End(t)
        \/ \E f \in ConcFields : CallSetter(t, f, AllOnes)
        \/ CallSend(t, Data(1), W32(5))

Spec == Init /\ [][Next]_vars

----------------------------------------------------------------------------
(* One thread: the register fields *)

InitReg == InitWith({"t1"}, DebugBlocks, RegsInit, {Zero})

NextReg ==
    \/ Begin("t1")
    \/ End("t1")
    \/ \E f \in Fields(blk), v \in SetValues : CallSetGet("t1", f, v)

SpecReg == InitReg /\ [][NextReg]_vars

----------------------------------------------------------------------------
(* One thread: the debug block's snapshot *)

InitDbg == InitWith({"t1"}, DebugBlocks, {<<Zero, Zero>>}, {Zero})

NextDbg ==
    \/ Begin("t1")
    \/ End("t1")
    \/ CallUpdate("t1")
    \/ CallClear("t1")
    \/ HwDebug

SpecDbg == InitDbg /\ [][NextDbg]_vars

----------------------------------------------------------------------------
(* One thread: the streaming FIFO *)

InitFifo == InitWith({"t1"}, {3328}, {<<Zero, Zero>>}, {Zero, W32(201326592)})

NextFifo ==
    \/ Begin("t1")
    \/ End("t1")
    \/ CallReset("t1")
    \/ CallInit("t1")
    \/ \E n \in 0..MaxLen, tid \in Tids : CallSend("t1", Data(n), tid)
    \/ \E e \in Entries : CallReceive("t1", e)
    \/ HwFifo

SpecFifo == InitFifo /\ [][NextFifo]_vars

----------------------------------------------------------------------------
(* One thread: the TID lookup *)

InitTid == InitWith({"t1"}, {3328}, {<<Zero, Zero>>}, {Zero})

NextTid == \E cfg \in Cfgs : CallTidLookup("t1", cfg)

SpecTid == InitTid /\ [][NextTid]_vars

----------------------------------------------------------------------------
(* One thread: the fixed-point conversion *)

\* the values n / d and -n / d of [-1, 1]
UnitValues ==
    {v \in {Real(neg, 1, <<>>, n, d) : neg \in BOOLEAN, n \in 0..MaxDen, d \in 1..MaxDen} :
        v.p <= v.q}

InitFixed == InitWith({"t1"}, {3328}, {<<Zero, Zero>>}, {Zero})

NextFixed == \E v \in UnitValues : CallToFixedPoint("t1", v)

SpecFixed == InitFixed /\ [][NextFixed]_vars

----------------------------------------------------------------------------
(* One thread: the modulation tables and the bit mapper RAM. The encoder   *)
(* is configured once, on registers that hold 0.                           *)

InitRam ==
    /\ backend \in Backends
    /\ blk = 3328
    /\ active = {"t1"}
    /\ lock = NoThread
    /\ th = [t \in Threads |-> IdleThread]
    /\ dbg = AxiDebugEmpty
    /\ mem = IF backend = "InMemoryFake" THEN [a \in {} |-> Zero]
             ELSE [a \in AllAddrs \cup {EncBase + o : o \in EncRamOffsets} |-> Zero]

NextRam ==
    \/ Begin("t1")
    \/ End("t1")
    \/ \E cfg \in Cfgs : th["t1"].st = "idle" /\ CallUpdateBitMapperRam("t1", cfg)
    \/ \E cfg \in Cfgs : CallGetModulationTable("t1", cfg)

SpecRam == InitRam /\ [][NextRam]_vars

----------------------------------------------------------------------------
(* One thread: the polyphase filter coefficients *)

NextCoeff ==
    \/ Begin("t1")
    \/ End("t1")
    \/ CallWritePolyphase("t1")
    \/ CallEncoderInit("t1")

SpecCoeff == InitRam /\ [][NextCoeff]_vars

----------------------------------------------------------------------------
(* One thread, one call: every operation of the encoder and of the FIFO,   *)
(* each from the same start. The bit mapper RAM holds the QPSK table       *)
(* (updateBitMapperRam was called for QPSK), global register 0 holds       *)
(* 0xAAAACCCC and the control registers hold 0xF0F0F0F5 and 5.             *)

\* the words of the QPSK table: 0x5A825A82, 0x5A82A57E, 0xA57E5A82, 0xA57EA57E
QpskWords ==
    << <<23170, 23170>>, <<23170, 42366>>, <<42366, 23170>>, <<42366, 42366>> >>

\* the registers at the start: the store of the fake holds what was written
OnceMem(b, watched) ==
    LET ram == {EncBase + 12 + 4 * i : i \in 0..3}
        regs == DeviceMem(watched, <<43690, 52428>>, <<61680, 61685>>, Zero)
        word(a) == QpskWords[(a - EncBase - 12) \div 4 + 1]
    IN  IF b = "InMemoryFake"
        THEN [a \in ram |-> word(a)]
        ELSE [a \in AllAddrs \cup {EncBase + o : o \in EncRamOffsets} |->
                 IF a \in ram THEN word(a)
                 ELSE IF a \in AllAddrs THEN regs[a]
                 ELSE Zero]

InitOnce ==
    /\ backend \in Backends
    /\ blk \in DebugBlocks
    /\ active = {"t1"}
    /\ lock = NoThread
    /\ th = [t \in Threads |-> IdleThread]
    /\ dbg = AxiDebugEmpty
    /\ mem = OnceMem(backend, blk)

Once(t) == th[t].st = "idle"

\* one code rate per constellation, and three triples with a value that is
\* no member of its enumeration
OnceCfgs ==
    {Cfg("FECFRAME_NORMAL", c, "C3_4") : c \in Constellations}
        \cup {Cfg("FECFRAME_NORMAL", "none", "C3_4"),
              Cfg("none", "MOD_QPSK", "C1_4"),
              Cfg("FECFRAME_SHORT", "MOD_8PSK", "none")}

NextOnce ==
    \/ Begin("t1")
    \/ End("t1")
    \/ Once("t1") /\ CallGetStatus("t1")
    \/ Once("t1") /\ \E print_map \in BOOLEAN : CallPrintStatus("t1", print_map)
    \/ Once("t1") /\ \E f \in Fields(blk), v \in SetValues : CallSetGet("t1", f, v)
    \/ Once("t1") /\ CallUpdate("t1")
    \/ Once("t1") /\ CallClear("t1")
    \/ Once("t1") /\ \E cfg \in OnceCfgs : CallUpdateBitMapperRam("t1", cfg)
    \/ Once("t1") /\ \E cfg \in OnceCfgs : CallTidLookup("t1", cfg)
    \/ Once("t1") /\ CallWritePolyphase("t1")
    \/ Once("t1") /\ CallEncoderInit("t1")
    \/ Once("t1") /\ \E region \in {"enc", "fifo"}, used \in BOOLEAN :
                         CallConstruct("t1", region, used)
    \/ Once("t1") /\ CallReset("t1")
    \/ Once("t1") /\ CallInit("t1")
    \/ Once("t1") /\ \E n \in 0..MaxLen, tid \in Tids : CallSend("t1", Data(n), tid)
    \/ Once("t1") /\ \E e \in Entries : CallReceive("t1", e)

SpecOnce == InitOnce /\ [][NextOnce]_vars

----------------------------------------------------------------------------
(* One thread on the in-memory fake: raw reads and writes through the two  *)
(* regions, on an empty store                                              *)

\* offsets per region: 0x10000 past the encoder's base is the FIFO's
\* offset 0; 0x30000 past the encoder's base and 0x20000 past the FIFO's
\* lie in page 0xC3
StoreOffsets(region) ==
    IF region = "enc" THEN {0, 65536, 196608} ELSE {0, 131072}

StoreValues == {W32(1), AllOnes}

InitStore ==
    /\ backend = "InMemoryFake"
    /\ blk = 3328
    /\ active = {"t1"}
    /\ lock = NoThread
    /\ th = [t \in Threads |-> IdleThread]
    /\ dbg = AxiDebugEmpty
    /\ mem = [a \in {} |-> Zero]

NextStore ==
    \/ Begin("t1")
    \/ End("t1")
    \/ \E region \in {"enc", "fifo"} : \E offset \in StoreOffsets(region) :
          CallRead("t1", region, offset)
    \/ \E region \in {"enc", "fifo"} : \E offset \in StoreOffsets(region) :
          \E data \in StoreValues : CallWrite("t1", region, offset, data)

SpecStore == InitStore /\ [][NextStore]_vars

----------------------------------------------------------------------------
(* One thread: updateBitMapperRam, call after call *)

\* two code rates per constellation: the 16APSK and 32APSK tables of 3/4
\* and of 9/10 differ
SeqCfgs == {Cfg("FECFRAME_NORMAL", c, r) : c \in Constellations, r \in {"C3_4", "C9_10"}}

InitSeq == InitOnce /\ blk = 3328

NextSeq ==
    \/ Begin("t1")
    \/ End("t1")
    \/ \E cfg \in SeqCfgs : CallUpdateBitMapperRam("t1", cfg)

SpecSeq == InitSeq /\ [][NextSeq]_vars

----------------------------------------------------------------------------
(* One thread on the external tool: the peek and poke command lines *)

\* the registers of both regions, and 0xC2FFFC, the last word of page 0xC2
ToolAddrs == AllAddrs \cup {EncBase + o : o \in EncRamOffsets} \cup {12779516}

InitTool ==
    /\ backend = "ExternalTool"
    /\ blk = 3328
    /\ active = {"t1"}
    /\ lock = NoThread
    /\ th = [t \in Threads |-> IdleThread]
    /\ dbg = AxiDebugEmpty
    /\ mem = [a \in ToolAddrs |-> Zero]

NextTool ==
    \/ \E addr \in ToolAddrs : CallPeek("t1", addr)
    \/ \E addr \in ToolAddrs, data \in SetValues : CallPoke("t1", addr, data)

SpecTool == InitTool /\ [][NextTool]_vars

----------------------------------------------------------------------------
(* Two threads under a fair lock: a field setter, AxiDebug.update and      *)
(* AxiFifo.reset, init and receive. A thread that waits for the lock gets  *)
(* it after finitely many releases (strong fairness of Begin); an access   *)
(* that was started completes (weak fairness of End).                      *)

NextLive ==
    \E t \in Threads :
        \/ Begin(t)
        \/ End(t)
        \/ CallSetter(t, enable_dummy_frames, AllOnes)
        \/ CallReset(t)
        \/ CallInit(t)
        \/ CallUpdate(t)
        \/ CallReceive(t, Some(MaxEntries))

FairLock == \A t \in Threads : WF_vars(End(t)) /\ SF_vars(Begin(t))

SpecLive == Init /\ [][NextLive]_vars /\ FairLock

----------------------------------------------------------------------------
(* Properties: concurrency *)

\* the thread t has completed an access on this step
Accessed(t) == th[t].st = "acc" /\ th'[t].st # "acc"

\* C1: on every backend variant at most one register read or write is in
\* progress at any time.
C1_OneAccessAtATime == Cardinality({t \in Threads : th[t].st = "acc"}) <= 1

\* the thread t is inside send(), after its first and before its last write
BetweenWrites(t) ==
    /\ th[t].op.name = "send"
    /\ \E i \in 1..Len(th[t].log) : th[t].log[i].k = "W"
    /\ \E i \in 1..Len(th[t].prog) : th[t].prog[i].k = "W"

\* C2: between the first and the last write of a multi-write operation of
\* one thread, no register access of another thread takes place.
C2_NoInterleaving ==
    \A t, u \in Threads : (t # u /\ BetweenWrites(t)) => th[u].st # "acc"

\* C3: the read-modify-write of a field setter never overwrites another
\* thread's update of the same register: the bits outside the setter's field
\* are, after its write, what the register held just before the write.
C3_NoLostUpdate ==
    [][\A t \in Threads :
         (Accessed(t) /\ Head(th[t].prog).k = "WF") =>
            LET f == Head(th[t].prog).f
                addr == EncBase + f.off
            IN  AND(dictRead(mem', addr), INV(f.clr)) = AND(dictRead(mem, addr), INV(f.clr))]_vars

----------------------------------------------------------------------------
(* Properties: register fields *)

\* the layout of a field: the register's offset, its lowest bit, its width
Layout(name, b) ==
    CASE name = "block_data" -> [off |-> b, bit |-> 0, width |-> 1]
      [] name = "allow_word" -> [off |-> b, bit |-> 1, width |-> 1]
      [] name = "allow_frame" -> [off |-> b, bit |-> 2, width |-> 1]
      [] name = "physical_layer_scrambler_shift_reg_init" -> [off |-> 0, bit |-> 0, width |-> 18]
      [] name = "enable_dummy_frames" -> [off |-> 0, bit |-> 18, width |-> 1]

\* the bits of a word outside the field
Outside(w, l) == AND(w, INV(SHL(W32(Pow2(l.width) - 1), l.bit)))

SetGetReturned(t) == th[t].st = "ret" /\ th[t].op.name = "setget"

\* C4: in a single thread, after a field setter with value v the field's
\* getter returns v masked to the field width, every bit of the register
\* outside the field is as before, and every other register is unchanged.
C4_SetThenGet ==
    /\ [](\A t \in Threads : SetGetReturned(t) =>
            LET l == Layout(th[t].op.f.name, blk)
                addr == EncBase + l.off
                log == th[t].log
            IN  /\ Len(log) = 3
                /\ <<log[1].k, log[2].k, log[3].k>> = <<"R", "W", "R">>
                /\ \A i \in 1..3 : log[i].a = addr
                /\ th[t].ret = AND(th[t].op.v, W32(Pow2(l.width) - 1))
                /\ Outside(log[2].d, l) = Outside(log[1].d, l)
                /\ dictRead(mem, addr) = log[2].d)
    /\ [][\A t \in Threads : (Accessed(t) /\ th[t].op.name = "setget") =>
            LET addr == EncBase + Layout(th[t].op.f.name, blk).off
            IN  /\ DOMAIN mem' \subseteq (DOMAIN mem) \cup {addr}
                /\ \A a \in AllAddrs \ {addr} : dictRead(mem', a) = dictRead(mem, a)]_vars

\* a setter of allow_frame of the last debug block (0x1300) with value
\* 0xFFFFFFFF has returned, over a register that held 0xF0F0F0F5
C4_Witness ==
    /\ SetGetReturned("t1")
    /\ blk = 4864
    /\ th["t1"].op.f.name = "allow_frame"
    /\ th["t1"].op.v = AllOnes
    /\ th["t1"].log[1].d = <<61680, 61685>>

----------------------------------------------------------------------------
(* Properties: the debug block's snapshot *)

\* the thread t has called clear() on this step
Cleared(t) == th'[t] # th[t] /\ th'[t].op.name = "clear" /\ th'[t].st = "ret"

\* C5: clear() resets the cached snapshot to empty (word_count 0, max and
\* min frame length unset), issues no backend access, and leaves every
\* register as it was.
C5_ClearOnlyCache ==
    /\ [](\A t \in Threads : (th[t].st = "ret" /\ th[t].op.name = "clear") =>
            /\ dbg.word_count = Zero
            /\ dbg.max_frame_length = None
            /\ dbg.min_frame_length = None
            /\ th[t].log = <<>>)
    /\ [][\A t \in Threads : Cleared(t) => (mem' = mem /\ lock' = lock)]_vars

\* clear() has returned on the last debug block while the hardware counters
\* are not zero
C5_Witness ==
    /\ th["t1"].st = "ret" /\ th["t1"].op.name = "clear"
    /\ blk = 4864
    /\ dictRead(mem, EncBase + blk + 16) = W32(2)
    /\ dictRead(mem, EncBase + blk + 12) = <<7, 2>>

\* C6: after update() the cached word_count is register 0x10 and the cached
\* max / min frame lengths are bits[31:16] / bits[15:0] of register 0xC as
\* read by the call; the cache is overwritten, not aggregated; it changes
\* only by update() and clear(), not when the hardware registers change;
\* update() issues no write.
C6_UpdateSnapshots ==
    /\ [](\A t \in Threads : (th[t].st = "ret" /\ th[t].op.name = "update") =>
            LET log == th[t].log
            IN  /\ Len(log) = 2
                /\ log[1].k = "R" /\ log[1].a = EncBase + blk + 16
                /\ log[2].k = "R" /\ log[2].a = EncBase + blk + 12
                /\ dbg.word_count = log[1].d
                /\ dbg.max_frame_length = Some(<<0, log[2].d[1]>>)
                /\ dbg.min_frame_length = Some(<<0, log[2].d[2]>>))
    /\ [][\A t \in Threads : (Accessed(t) /\ th[t].op.name = "update") =>
            /\ mem' = mem
            /\ th'[t].log[Len(th'[t].log)].d = dictRead(mem, th'[t].log[Len(th'[t].log)].a)]_vars
    /\ [][dbg' # dbg =>
            \E t \in Threads : Cleared(t) \/ (Accessed(t) /\ th[t].op.name = "update")]_vars

\* update() has returned with max 3 / min 1 cached, and the hardware
\* registers have moved on since: word count 2, lengths 7 / 2
C6_Witness ==
    /\ th["t1"].st = "ret" /\ th["t1"].op.name = "update"
    /\ dbg.word_count = W32(1)
    /\ dbg.max_frame_length = Some(W32(3))
    /\ dbg.min_frame_length = Some(W32(1))
    /\ dictRead(mem, EncBase + blk + 16) = W32(2)
    /\ dictRead(mem, EncBase + blk + 12) = <<7, 2>>

----------------------------------------------------------------------------
(* Properties: the streaming FIFO *)

IsWrite(e) == e.k = "W"

\* the register writes the thread's operation has issued so far
Writes(t) == SelectSeq(th[t].log, IsWrite)

FifoWrite(offset, d) == [k |-> "W", a |-> FifoBase + offset, d |-> d]

\* C7: send(data, tid) writes IER = 0x0C000000, TX destination = 0,
\* TX ID = tid, TX USER = tid, then ceil(len(data)/4) words to the TX data
\* port, then len(data) to the TX length register, then 0xFFFFFFFF to the
\* ISR, in this order; the length register is written exactly once, after
\* the last data word.
C7_SendWriteOrder ==
    \A t \in Threads : th[t].op.name = "send" =>
        LET w == Writes(t)
            n == Len(th[t].op.data)
            words == (n + 3) \div 4
        IN  /\ Len(w) <= words + 6
            /\ th[t].st = "ret" => Len(w) = words + 6
            /\ \A i \in 1..Len(w) :
                  /\ i = 1 => w[i] = FifoWrite(IER, <<3072, 0>>)
                  /\ i = 2 => w[i] = FifoWrite(TX_DEST_REGISTER, Zero)
                  /\ i = 3 => w[i] = FifoWrite(TX_ID_REGISTER, th[t].op.tid)
                  /\ i = 4 => w[i] = FifoWrite(TX_USER_REGISTER, th[t].op.tid)
                  /\ (4 < i /\ i <= 4 + words) => w[i].a = FifoBase + TX_FIFO_DATA
                  /\ i = words + 5 => w[i] = FifoWrite(TX_LENGTH_REGISTER, <<0, n>>)
                  /\ i = words + 6 => w[i] = FifoWrite(ISR, <<65535, 65535>>)

\* send() of 5 bytes (two data words, the second partial) with tid 0x57 has
\* returned
C7_Witness ==
    /\ th["t1"].st = "ret" /\ th["t1"].op.name = "send"
    /\ Len(th["t1"].op.data) = 5
    /\ th["t1"].op.tid = W32(87)

\* the 4-byte chunk j of data, zero-extended at its end, read big-endian
PaddedWord(data, j) ==
    LET b == [k \in 1..4 |-> IF 4 * j + k <= Len(data) THEN data[4 * j + k] ELSE 0]
    IN  <<b[1] * 256 + b[2], b[3] * 256 + b[4]>>

\* C8: the i-th word send() writes to the TX data port is the big-endian
\* value of bytes data[4i..4i+3], a short final chunk being zero-extended to
\* 4 bytes with the missing trailing bytes zero.
C8_WordsBigEndianPadded ==
    \A t \in Threads : th[t].op.name = "send" =>
        LET w == Writes(t)
            words == (Len(th[t].op.data) + 3) \div 4
        IN  \A i \in 1..Len(w) :
               (4 < i /\ i <= 4 + words) => w[i].d = PaddedWord(th[t].op.data, i - 5)

\* C9: after send() or init() returns the ISR register reads 0 on every
\* backend variant.
C9_NoPendingInterrupt ==
    \A t \in Threads :
        (th[t].st = "ret" /\ th[t].op.name \in {"send", "init"}) =>
            dictRead(mem, FifoBase + ISR) = Zero

\* C10: receive(n) with an integer n >= 0 reads exactly n words from the RX
\* data port, returns 4n bytes and does not read the RX occupancy register.
C10_ReceiveEntries ==
    \A t \in Threads :
        (th[t].st = "ret" /\ th[t].op.name = "receive" /\ th[t].op.n # None) =>
            /\ Len(th[t].log) = th[t].op.n[1]
            /\ \A i \in 1..Len(th[t].log) :
                  th[t].log[i].k = "R" /\ th[t].log[i].a = FifoBase + RX_FIFO_DATA
            /\ Len(th[t].ret) = 4 * th[t].op.n[1]

\* the bytes [b0 b1 b2 b3] of a word, most significant first
BytesOf(w) == <<w[1] \div 256, w[1] % 256, w[2] \div 256, w[2] % 256>>

\* the bytes receive() owes for the RX data port reads of a log, in order
RECURSIVE SwappedBytes(_)
SwappedBytes(log) ==
    IF log = <<>> THEN <<>>
    ELSE LET e == Head(log)
             b == BytesOf(e.d)
         IN  (IF e.k = "R" /\ e.a = FifoBase + RX_FIFO_DATA
              THEN <<b[2], b[1], b[4], b[3]>>
              ELSE <<>>) \o SwappedBytes(Tail(log))

\* C11: for every word [b0 b1 b2 b3] read from the RX data port, receive()
\* appends the bytes [b1 b0 b3 b2] to its result, in the order the words
\* were read (0xAABBCCDD gives 0xBB 0xAA 0xDD 0xCC).
C11_ReceiveSwapsBytePairs ==
    \A t \in Threads : th[t].op.name = "receive" => th[t].ret = SwappedBytes(th[t].log)

\* receive() has returned after reading 0xAABBCCDD, then 0x01020304
C11_Witness ==
    /\ th["t1"].st = "ret" /\ th["t1"].op.name = "receive"
    /\ th["t1"].ret = <<187, 170, 221, 204, 2, 1, 4, 3>>

\* C12: reset() writes 0xA5 to each of the three reset registers (TX FIFO
\* reset 0x8, AXI4-Stream reset 0x28, RX FIFO reset 0x18), writes no other
\* register and performs no read.
C12_ResetPulsesThree ==
    \A t \in Threads : th[t].op.name = "reset" =>
        LET log == th[t].log
            regs == {FifoBase + 8, FifoBase + 40, FifoBase + 24}
        IN  /\ \A i \in 1..Len(log) :
                  log[i].k = "W" /\ log[i].d = <<0, 165>> /\ log[i].a \in regs
            /\ \A i, j \in 1..Len(log) : log[i].a = log[j].a => i = j
            /\ th[t].st = "ret" => {log[i].a : i \in 1..Len(log)} = regs

\* reset() has returned on the in-memory fake, which then holds 0xA5 at the
\* three reset registers
C12_Witness ==
    /\ th["t1"].st = "ret" /\ th["t1"].op.name = "reset"
    /\ backend = "InMemoryFake"
    /\ \A a \in {FifoBase + 8, FifoBase + 40, FifoBase + 24} : dictRead(mem, a) = <<0, 165>>

----------------------------------------------------------------------------
(* Properties: the TID table *)

\* the position of an element in a sequence without repetitions
IndexIn(seq, x) == CHOOSE i \in DOMAIN seq : seq[i] = x

\* C13: the TID table is total over the 2 x 4 x 11 triples and maps them
\* one-to-one onto 0x00..0x57, with TID = 44*f + 11*c + r (f = 0 short,
\* 1 normal; c, r the positions of the constellation and of the code rate).
C13_TidTable ==
    /\ \A cfg \in Cfgs : HasTid(cfg)
    /\ \A x, y \in Cfgs : TidOf(x) = TidOf(y) => x = y
    /\ {TidOf(cfg) : cfg \in Cfgs} = 0..87
    /\ \A t \in Threads : th[t].op.name = "tid" =>
          LET cfg == th[t].op.cfg
              f == IF cfg.frame = "FECFRAME_NORMAL" THEN 1 ELSE 0
              c == IndexIn(ConstellationSeq, cfg.constellation) - 1
              r == IndexIn(CodeRateSeq, cfg.rate) - 1
          IN  th[t].st = "ret" /\ th[t].ret = <<44 * f + 11 * c + r>>

\* the lookup of (normal, 32APSK, 9/10) has returned 0x57
C13_Witness ==
    /\ th["t1"].st = "ret" /\ th["t1"].op.name = "tid"
    /\ th["t1"].op.cfg = Cfg("FECFRAME_NORMAL", "MOD_32APSK", "C9_10")
    /\ th["t1"].ret = <<87>>

----------------------------------------------------------------------------
(* Properties: the fixed-point conversion *)

\* toFixedPoint(value, 16) has returned in thread t
Converted(t) == th[t].st = "ret" /\ th[t].op.name = "toFixedPoint"

\* the 16-bit result read as a two's-complement integer
Decode16(r) == IF r >= 32768 THEN r - 65536 ELSE r

\* the numerator of 32767 * value over the denominator value.q, for a
\* value n / d
Num32767(value) == (IF value.neg THEN 0 - 1 ELSE 1) * 32767 * value.p

Abs(n) == IF n < 0 THEN 0 - n ELSE n

\* k is round(32767 * value): the nearest integer, the even one of two
IsRound(k, value) ==
    LET dist == 2 * Abs(k * value.q - Num32767(value))
    IN  dist <= value.q /\ (dist = value.q => k % 2 = 0)

\* C14: toFixedPoint(value, 16) is round(value * 32767) when that is
\* non-negative and round(value * 32767) + 65536 otherwise; for a value of
\* [-1, 1] it is an integer of 0..65535; 1.0 gives 0x7FFF, -1.0 gives 0x8001.
C14_FixedPointWraps ==
    \A t \in Threads : Converted(t) =>
        LET v == th[t].op.x
            r == th[t].ret[1]
        IN  /\ r \in 0..65535
            /\ \E k \in {r, r - 65536} :
                  /\ IsRound(k, v)
                  /\ r = IF k >= 0 THEN k ELSE k + 65536
            /\ (v.p = v.q /\ ~v.neg) => r = 32767
            /\ (v.p = v.q /\ v.neg) => r = 32769

\* toFixedPoint(-1.0, 16) has returned 0x8001
C14_Witness ==
    /\ Converted("t1")
    /\ th["t1"].op.x = Real(TRUE, 1, <<>>, 1, 1)
    /\ th["t1"].ret = <<32769>>

\* C15: decoding toFixedPoint(v, 16) as a two's-complement integer divided
\* by 32767 recovers v within one quantization step: the absolute
\* difference is at most 1/32767.
C15_RoundTrip ==
    \A t \in Threads : Converted(t) =>
        LET v == th[t].op.x
        IN  Abs(Decode16(th[t].ret[1]) * v.q - Num32767(v)) <= v.q

\* toFixedPoint(-1/3, 16) has returned 65536 - 10922
C15_Witness ==
    /\ Converted("t1")
    /\ th["t1"].op.x = Real(TRUE, 1, <<>>, 1, 3)
    /\ th["t1"].ret = <<54614>>

----------------------------------------------------------------------------
(* Properties: the modulation tables *)

\* _getModulationTable has returned to thread t
Tabulated(t) == th[t].st = "ret" /\ th[t].op.name = "getModulationTable"

\* C16: for every frame type and every code rate, _getModulationTable
\* returns exactly 4 entries for QPSK, 8 for 8PSK, 16 for 16APSK and 32 for
\* 32APSK; the length depends only on the constellation.
C16_TableLength ==
    \A t \in Threads : Tabulated(t) =>
        LET c == th[t].op.cfg.constellation
        IN  /\ c = "MOD_QPSK" => Len(th[t].ret) = 4
            /\ c = "MOD_8PSK" => Len(th[t].ret) = 8
            /\ c = "MOD_16APSK" => Len(th[t].ret) = 16
            /\ c = "MOD_32APSK" => Len(th[t].ret) = 32

\* the table of (short frame, 8PSK, 3/5) has been returned
C16_Witness ==
    /\ Tabulated("t1")
    /\ th["t1"].op.cfg = Cfg("FECFRAME_SHORT", "MOD_8PSK", "C3_5")
    /\ Len(th["t1"].ret) = 8


\* the angles of the 16APSK table, in table order, as <<n, d>> for n * pi / d
Angles16 ==
    << <<1, 4>>, <<0 - 1, 4>>, <<3, 4>>, <<0 - 3, 4>>,
       <<1, 12>>, <<0 - 1, 12>>, <<11, 12>>, <<0 - 11, 12>>,
       <<5, 12>>, <<0 - 5, 12>>, <<7, 12>>, <<0 - 7, 12>>,
       <<1, 4>>, <<0 - 1, 4>>, <<3, 4>>, <<0 - 3, 4>> >>

\* the entry is (radius * cos(angle), radius * sin(angle)) with radius = p / q
OnRing(entry, p, q, angle) ==
    /\ entry[1].p * q = p * entry[1].q
    /\ entry[2].p * q = p * entry[2].q
    /\ Times(One, entry[1]) = MathCos(angle[1], angle[2])
    /\ Times(One, entry[2]) = MathSin(angle[1], angle[2])

\* C17: the modulation table of (normal frame, 16APSK, 2/3) has 16 entries;
\* entries 0..11 lie on the outer ring of radius r2 = 1.0 and entries 12..15
\* on the inner ring of radius r1 = 1/3.15, each entry being
\* (radius * cos(angle), radius * sin(angle)) in the angle order of the table.
C17_Table16APSK_2_3 ==
    \A t \in Threads :
        (Tabulated(t) /\ th[t].op.cfg = Cfg("FECFRAME_NORMAL", "MOD_16APSK", "C2_3")) =>
            /\ Len(th[t].ret) = 16
            /\ \A i \in 1..12 : OnRing(th[t].ret[i], 1, 1, Angles16[i])
            /\ \A i \in 13..16 : OnRing(th[t].ret[i], 100, 315, Angles16[i])

\* the table of (normal frame, 16APSK, 2/3) has been returned, its entry 12
\* on the ring of radius 1/3.15 at angle pi / 4
C17_Witness ==
    /\ Tabulated("t1")
    /\ th["t1"].op.cfg = Cfg("FECFRAME_NORMAL", "MOD_16APSK", "C2_3")
    /\ OnRing(th["t1"].ret[13], 100, 315, <<1, 4>>)


\* the value of a real is 0
IsZero(x) == x.p = 0 \/ (x.int = 0 /\ \A i \in 1..Len(x.frac) : x.frac[i] = 0)

\* the entry is (0, 0)
ZeroEntry(entry) == IsZero(entry[1]) /\ IsZero(entry[2])

\* the entry is a point of the ring of radius p / q
RadiusIs(entry, p, q) ==
    /\ ~ZeroEntry(entry)
    /\ entry[1].p * q = p * entry[1].q
    /\ entry[2].p * q = p * entry[2].q

\* the code rates with a ring-radius entry
Mapped16(frame) ==
    IF frame = "FECFRAME_NORMAL"
    THEN {"C2_3", "C3_4", "C4_5", "C5_6", "C8_9", "C9_10", "C3_5"}
    ELSE {"C2_3", "C3_4", "C4_5", "C5_6", "C8_9", "C3_5"}

Mapped32 == {"C3_4", "C4_5", "C5_6", "C8_9", "C9_10"}

\* the entries of a table that are (0, 0)
ZeroEntries(table) == {i \in 1..Len(table) : ZeroEntry(table[i])}

\* a (frame type, code rate) without a ring-radius entry does not fail: the
\* table has its full length and the entries of the unmapped rings are
\* (0, 0); 16APSK at 9/10 has inner radius 1/2.57 for normal frames and 0.0
\* for short frames; 32APSK at an unmapped rate has `zeros` entries (0, 0)
\* and 32 - zeros entries on the ring r3 = 1.0
DegenerateRings(t, zeros) ==
    LET cfg == th[t].op.cfg
        table == th[t].ret
    IN  /\ (cfg.constellation = "MOD_16APSK" /\ cfg.rate \notin Mapped16(cfg.frame)) =>
              /\ th[t].st = "ret"
              /\ Len(table) = 16
              /\ ZeroEntries(table) = 13..16
        /\ (cfg.constellation = "MOD_16APSK" /\ cfg.rate = "C9_10") =>
              \A i \in 13..16 :
                  IF cfg.frame = "FECFRAME_NORMAL"
                  THEN RadiusIs(table[i], 100, 257)
                  ELSE ZeroEntry(table[i])
        /\ (cfg.constellation = "MOD_32APSK" /\ cfg.rate \notin Mapped32) =>
              /\ th[t].st = "ret"
              /\ Len(table) = 32
              /\ Cardinality(ZeroEntries(table)) = zeros
              /\ Cardinality({i \in 1..32 : RadiusIs(table[i], 1, 1)}) = 32 - zeros

\* C18 as stated: 32APSK with an unmapped code rate has 24 entries (0, 0)
\* and only 8 entries on the outer ring r3.
C18_Stated_24Zero ==
    \A t \in Threads : th[t].op.name = "getModulationTable" => DegenerateRings(t, 24)

\* C18: for 16APSK and 32APSK a (frame type, code rate) with no ring-radius
\* entry does not fail: the table is returned at full length with the
\* unmapped radii 0.0, so the affected entries are (0, 0). 16APSK at 9/10
\* has inner radius 1/2.57 for normal frames and 0.0 for short frames; 32APSK
\* at an unmapped code rate has r1 = r2 = 0.0 (16 zero entries) with only the
\* 16 outer-ring r3 entries non-zero.
C18_DegenerateRings ==
    \A t \in Threads : th[t].op.name = "getModulationTable" => DegenerateRings(t, 16)

\* the table of (short frame, 32APSK, 1/4) has been returned: its 12 entries
\* of r2 and 4 entries of r1 are (0, 0)
C18_Witness ==
    /\ Tabulated("t1")
    /\ th["t1"].op.cfg = Cfg("FECFRAME_SHORT", "MOD_32APSK", "C1_4")
    /\ ZeroEntries(th["t1"].ret) = (1..8) \cup {17, 18, 19, 20, 21, 22, 23, 24}


----------------------------------------------------------------------------
(* Properties: the bit mapper RAM and the filter coefficients *)

\* the word whose bits [31:16] are hi and whose bits [15:0] are lo
Halves(hi, lo) == <<hi, lo>>

\* C19: updateBitMapperRam(frame, constellation, rate) writes, for each
\* index i of the modulation table in table order, the word
\* (toFixedPoint(cos_i, 16) << 16) | toFixedPoint(sin_i, 16) to region offset
\* 0x0C + 4 * (base + i), base being 0 for QPSK, 4 for 8PSK, 12 for 16APSK
\* and 28 for 32APSK; it writes exactly len(table) words, each fitting in 32
\* bits with the sin half never carrying into the cos half, and writes
\* nothing else.
C19_BitMapperRamWrites ==
    \A t \in Threads : th[t].op.name = "updateBitMapperRam" =>
        LET cfg == th[t].op.cfg
            table == getModulationTable(cfg.frame, cfg.constellation, cfg.rate)
            base == CASE cfg.constellation = "MOD_QPSK" -> 0
                      [] cfg.constellation = "MOD_8PSK" -> 4
                      [] cfg.constellation = "MOD_16APSK" -> 12
                      [] cfg.constellation = "MOD_32APSK" -> 28
            log == th[t].log
        IN  /\ th[t].st # "err"
            /\ Len(log) <= Len(table)
            /\ th[t].st = "ret" => Len(log) = Len(table)
            /\ \A i \in 1..Len(log) :
                  LET cos == toFixedPoint(table[i][1], 16)
                      sin == toFixedPoint(table[i][2], 16)
                  IN  /\ cos \in 0..65535 /\ sin \in 0..65535
                      /\ log[i] = [k |-> "W", a |-> EncBase + 12 + 4 * (base + i - 1),
                                   d |-> Halves(cos, sin)]
            /\ \A a \in DOMAIN mem :
                  mem[a] # Zero => \E i \in 1..Len(log) : log[i].a = a /\ log[i].d = mem[a]

\* updateBitMapperRam(normal frame, 32APSK, 3/4) has returned: 32 words, the
\* last at offset 0x0C + 4 * 59, the first (r2 at pi / 4) with equal halves
C19_Witness ==
    /\ th["t1"].st = "ret" /\ th["t1"].op.name = "updateBitMapperRam"
    /\ th["t1"].op.cfg = Cfg("FECFRAME_NORMAL", "MOD_32APSK", "C3_4")
    /\ Len(th["t1"].log) = 32
    /\ th["t1"].log[32].a = EncBase + 248
    /\ th["t1"].log[1].a = EncBase + 124
    /\ th["t1"].log[1].d[1] = th["t1"].log[1].d[2]
    /\ th["t1"].log[1].d[1] \in 12000..13000


\* the thread is in write_polyphase_filter_coefficients(), called directly
\* or by init()
InPolyphase(t) ==
    th[t].op.name \in {"write_polyphase_filter_coefficients", "DvbEncoder.init"}

\* the call writes a fixed sequence of exactly `count` words to the offsets
\* 0x3CC, 0x3D0, ..., each word holding the same fixed-point coefficient in
\* bits [31:16] and bits [15:0], and writes no other register
PolyphaseWrites(t, count) ==
    LET log == th[t].log
    IN  /\ th[t].st # "err"
        /\ Len(log) <= count
        /\ th[t].st = "ret" => Len(log) = count
        /\ \A i \in 1..Len(log) :
              LET coeff == toFixedPoint(PolyphaseCoeffs[i], 16)
              IN  /\ coeff \in 0..65535
                  /\ log[i] = [k |-> "W", a |-> EncBase + 972 + 4 * (i - 1),
                               d |-> Halves(coeff, coeff)]
        /\ \A a \in DOMAIN mem :
              mem[a] # Zero =>
                  \E i \in 1..count :
                      /\ a = EncBase + 972 + 4 * (i - 1)
                      /\ mem[a][1] = mem[a][2]

\* C20 as stated: write_polyphase_filter_coefficients() (and init()) writes
\* exactly 32 words.
C20_Stated_32Words == \A t \in Threads : InPolyphase(t) => PolyphaseWrites(t, 32)

\* C20: write_polyphase_filter_coefficients() (and therefore init()) writes
\* a fixed sequence of exactly 33 words to a contiguous range of
\* 4-byte-spaced offsets starting at 0x3CC, each word packing the same
\* fixed-point coefficient into bits [31:16] and bits [15:0]; the sequence is
\* the same on every call and no other register is written.
C20_PolyphaseWrites == \A t \in Threads : InPolyphase(t) => PolyphaseWrites(t, 33)

\* init() has returned: 33 words, the centre tap 0.263359487057 at 0x40C,
\* the last word at 0x44C
C20_Witness ==
    /\ th["t1"].st = "ret" /\ th["t1"].op.name = "DvbEncoder.init"
    /\ Len(th["t1"].log) = 33
    /\ th["t1"].log[17] = [k |-> "W", a |-> EncBase + 1036, d |-> <<8630, 8630>>]
    /\ th["t1"].log[33] = [k |-> "W", a |-> EncBase + 1100, d |-> <<65512, 65512>>]


----------------------------------------------------------------------------
(* Properties: status *)

\* C21: getStatus() and printStatus(), with or without the constellation
\* map, are pure reads: they issue no backend write, so every register
\* (the bit mapper RAM word at offset 0xC included) holds the same value
\* afterwards.
C21_StatusIsPureRead ==
    \A t \in Threads : th[t].op.name \in {"getStatus", "printStatus"} =>
        /\ \A i \in 1..Len(th[t].log) : th[t].log[i].k = "R"
        /\ mem = OnceMem(backend, blk)


----------------------------------------------------------------------------
(* Properties: the in-memory fake *)

\* the positions before i of the log at which address a was written
WritesBefore(log, i, a) == {j \in 1..(i - 1) : log[j].k = "W" /\ log[j].a = a}

Max(S) == CHOOSE x \in S : \A y \in S : y <= x

\* the value last written to a before position i, 0 if there is none
LastWritten(log, i, a) ==
    IF WritesBefore(log, i, a) = {} THEN Zero ELSE log[Max(WritesBefore(log, i, a))].d

\* C22: on the in-memory fake, after any sequence of writes and reads
\* through any regions, a read of a valid absolute address returns the value
\* last written to that absolute address, through whichever region, and 0 if
\* it was never written; a read never changes the store.
C22_FakeReadsLastWritten ==
    \A t \in Threads : (backend = "InMemoryFake" /\ th[t].op.name = "accesses") =>
        LET log == th[t].log
            n == Len(log)
        IN  /\ \A i \in 1..n :
                  (log[i].k = "R" /\ ValidPage(log[i].a)) =>
                      log[i].d = LastWritten(log, i, log[i].a)
            /\ DOMAIN mem = {log[j].a : j \in {k \in 1..n : log[k].k = "W"}}
            /\ \A a \in DOMAIN mem : mem[a] = LastWritten(log, n + 1, a)

\* 0xFFFFFFFF, then 1 written to the absolute address 0xC10000 (the FIFO's
\* offset 0, the encoder's offset 0x10000), then 0xC10000 read: 1
C22_Witness ==
    /\ th["t1"].st = "ret" /\ th["t1"].op.name = "accesses"
    /\ th["t1"].log = << [k |-> "W", a |-> FifoBase, d |-> AllOnes],
                         [k |-> "W", a |-> FifoBase, d |-> W32(1)],
                         [k |-> "R", a |-> FifoBase, d |-> W32(1)] >>
    /\ th["t1"].prog = <<>>

\* C23: on the in-memory fake, any access, read or write, whose absolute
\* address has bits [23:16] outside {0xC0, 0xC1, 0xC2} fails with an
\* assertion error; the failed access leaves the store unchanged and
\* releases the backend lock.
C23_InvalidAccessFails ==
    \A t \in Threads : (backend = "InMemoryFake" /\ th[t].op.name = "accesses") =>
        /\ \A i \in 1..Len(th[t].log) : ValidPage(th[t].log[i].a)
        /\ \A a \in DOMAIN mem : ValidPage(a)
        /\ th[t].st = "err" => lock = NoThread


----------------------------------------------------------------------------
(* Properties: every operation *)

\* C24: every register access issued by any operation of DvbEncoder,
\* AxiDebug and AxiFifo uses an offset that is a multiple of 4, so with a
\* 4-byte-aligned region base every backend read and write is 4-byte
\* aligned, in every reachable state and for every argument.
C24_AccessesAligned ==
    \A t \in Threads :
        /\ \A i \in 1..Len(th[t].prog) : th[t].prog[i].a % 4 = 0
        /\ \A i \in 1..Len(th[t].log) : th[t].log[i].a % 4 = 0

\* updateBitMapperRam for 32APSK has returned, its last access the write of
\* symbol 59 at 0x0C + 4 * 59
C24_Witness ==
    /\ th["t1"].st = "ret" /\ th["t1"].op.name = "updateBitMapperRam"
    /\ Len(th["t1"].log) = 32
    /\ th["t1"].log[32].k = "W"
    /\ th["t1"].log[32].a = EncBase + 12 + 4 * 59

\* C25: updateBitMapperRam called with a constellation that is none of
\* QPSK, 8PSK, 16APSK, 32APSK raises an error before any register write,
\* leaving every register unchanged; a TID lookup for a triple with no
\* mapping raises an error instead of returning a value.
C25_UnsupportedFailsFast ==
    \A t \in Threads :
        /\ (th[t].op.name = "updateBitMapperRam"
                /\ th[t].op.cfg.constellation \notin Constellations) =>
              /\ th[t].st = "err"
              /\ th[t].log = <<>>
              /\ mem = OnceMem(backend, blk)
        /\ (th[t].op.name = "tid" /\ th[t].op.cfg \notin Cfgs) =>
              /\ th[t].st = "err"
              /\ th[t].ret = <<>>

\* updateBitMapperRam(normal frame, <no constellation>, 3/4) has raised
C25_Witness ==
    /\ th["t1"].st = "err" /\ th["t1"].op.name = "updateBitMapperRam"
    /\ th["t1"].op.cfg = Cfg("FECFRAME_NORMAL", "none", "C3_4")

\* the thread is in, or back from, a constructor
Constructing(t) == th[t].op.name \in {"DvbEncoder", "AxiFifo"}

\* C26: constructing a user-space DMA map region performs exactly one
\* register write, of value 0 to offset 0, before any other access through
\* that region; constructing a region on the direct-map, external-tool or
\* in-memory fake backend performs no register access.
C26_ConstructorWrite ==
    \A t \in Threads : Constructing(t) =>
        LET log == th[t].log
            base == IF th[t].op.name = "DvbEncoder" THEN EncBase ELSE FifoBase
            used == th[t].op.n = Some(1)
        IN  IF backend = "UserspaceDmaMap"
            THEN /\ Len(Writes(t)) <= 1
                 /\ log # <<>> => log[1] = [k |-> "W", a |-> base, d |-> Zero]
                 /\ th[t].st = "ret" => Len(log) = IF used THEN 2 ELSE 1
            ELSE /\ Writes(t) = <<>>
                 /\ Len(log) <= IF used THEN 1 ELSE 0
                 /\ \A i \in 1..Len(log) : log[i].a # base

\* AxiFifo(base, length) on the user-space DMA map, then its first read
C26_Witness ==
    /\ backend = "UserspaceDmaMap"
    /\ th["t1"].st = "ret" /\ th["t1"].op.name = "AxiFifo"
    /\ Len(th["t1"].log) = 2
    /\ th["t1"].log[1] = [k |-> "W", a |-> FifoBase, d |-> Zero]
    /\ th["t1"].log[2].k = "R"


\* the hardware-owned registers: offsets 0x4 .. 0x14 of the seven debug
\* blocks and the global status registers at 0x4 and 0x8
ReadOnlyAddrs ==
    {EncBase + b + o : b \in DebugBlocks, o \in {4, 8, 12, 16, 20}}
        \cup {EncBase + 4, EncBase + 8}

\* C28: no operation ever writes a hardware-owned read-only register: no
\* write targets offsets 0x4, 0x8, 0xC, 0x10 or 0x14 of any of the 7 debug
\* blocks, nor the global status registers at 0x4 and 0x8; the only
\* debug-block register ever written is its control register at offset 0.
C28_ReadOnlyNeverWritten ==
    /\ \A t \in Threads : \A i \in 1..Len(th[t].log) :
          th[t].log[i].k = "W" =>
              /\ th[t].log[i].a \notin ReadOnlyAddrs
              /\ \A b \in DebugBlocks :
                    th[t].log[i].a \in (EncBase + b)..(EncBase + b + 255) =>
                        th[t].log[i].a = EncBase + b
    /\ \A a \in ReadOnlyAddrs \cap DOMAIN mem : mem[a] = OnceMem(backend, blk)[a]

\* the setter of allow_frame of the block at 0x1300 has written the control
\* register
C28_Witness ==
    /\ blk = 4864
    /\ th["t1"].st = "ret" /\ th["t1"].op.name = "setget"
    /\ th["t1"].op.f = allow_frame(4864)
    /\ th["t1"].log[2].k = "W" /\ th["t1"].log[2].a = EncBase + 4864


----------------------------------------------------------------------------
(* Properties: the layout of the bit mapper RAM *)

\* the symbol indexes of a constellation in the bit mapper RAM
RamIndexes(c) ==
    CASE c = "MOD_QPSK" -> 0..3
      [] c = "MOD_8PSK" -> 4..11
      [] c = "MOD_16APSK" -> 12..27
      [] c = "MOD_32APSK" -> 28..59

\* the offsets written for a constellation
RamOffsets(c) == {12 + 4 * i : i \in RamIndexes(c)}

\* the ranges of the four constellations are pairwise disjoint and disjoint
\* from the global registers, the coefficient range and the debug blocks
RamDisjoint ==
    /\ \A c1, c2 \in Constellations : c1 # c2 => RamOffsets(c1) \cap RamOffsets(c2) = {}
    /\ \A c \in Constellations :
          RamOffsets(c) \cap ({0, 4, 8} \cup (972..1100) \cup (3328..4884)) = {}

\* C29: the address ranges written for the four constellations (QPSK
\* indexes 0..3, 8PSK 4..11, 16APSK 12..27, 32APSK 28..59, at offset
\* 0x0C + 4 * index) are pairwise disjoint and disjoint from the global
\* registers, the coefficient range and the debug blocks; a write of
\* updateBitMapperRam changes a word of its own constellation only, and when
\* the call returns the words of its constellation are those of its table:
\* after any sequence of calls the words of each constellation are those of
\* the last call for it, and every other register is unchanged.
C29_RamRangesDisjoint ==
    [][\A t \in Threads :
          (th[t].op.name = "updateBitMapperRam" /\ th[t].st = "acc" /\ th'[t].st # "acc") =>
              LET cfg == th[t].op.cfg
                  own == {EncBase + o : o \in RamOffsets(cfg.constellation)}
                  table == getModulationTable(cfg.frame, cfg.constellation, cfg.rate)
                  first == CHOOSE i \in RamIndexes(cfg.constellation) :
                              \A j \in RamIndexes(cfg.constellation) : i <= j
              IN  /\ RamDisjoint
                  /\ \A a \in DOMAIN mem' \ own : a \in DOMAIN mem /\ mem'[a] = mem[a]
                  /\ mem' # mem => \E a \in own : mem'[a] # dictRead(mem, a)
                  /\ th'[t].st = "ret" =>
                        \A i \in 1..Len(table) :
                            mem'[EncBase + 12 + 4 * (first + i - 1)]
                                = Halves(toFixedPoint(table[i][1], 16),
                                         toFixedPoint(table[i][2], 16))]_vars

\* updateBitMapperRam(16APSK, 9/10) has returned after calls for 8PSK and
\* for 32APSK at 3/4: the first word of 8PSK and the first of 32APSK
\* (r2 = 2.84 / 5.27 at pi / 4: 0x30C630C6) are still in the RAM
C29_Witness ==
    /\ th["t1"].st = "ret" /\ th["t1"].op.name = "updateBitMapperRam"
    /\ th["t1"].op.cfg = Cfg("FECFRAME_NORMAL", "MOD_16APSK", "C9_10")
    /\ dictRead(mem, EncBase + 12 + 4 * 4) = <<23170, 23170>>
    /\ dictRead(mem, EncBase + 12 + 4 * 28) = <<12486, 12486>>
    /\ dictRead(mem, EncBase) = IF backend = "InMemoryFake" THEN Zero ELSE <<43690, 52428>>


----------------------------------------------------------------------------
(* Properties: the external tool *)

\* the characters 0-9 and A-F
HexCharSet == {HexChars[i] : i \in 1..16}

\* C30: for every valid absolute address, the address text passed to the
\* peek tool on a read is the hex literal passed to the poke tool on a write
\* of that address: '0x' followed by exactly 8 hexadecimal digits,
\* zero-padded, with no embedded space.
C30_PeekAddressLikePoke ==
    \A t \in Threads :
        (th[t].op.name \in {"peek", "poke"} /\ th[t].st = "ret") =>
            LET text == th[t].ret[2]
            IN  /\ Len(text) = 10
                /\ text[1] = "0" /\ text[2] = "x"
                /\ \A i \in 3..10 : text[i] \in HexCharSet
                /\ text = poke(th[t].op.n[1], Zero)[2]


----------------------------------------------------------------------------
(* Properties: termination *)

\* the number of register accesses of a call, fixed by its arguments
AccessCount(op) ==
    CASE op.name = "set" -> 2
      [] op.name = "reset" -> 3
      [] op.name = "init" -> 6
      [] op.name = "update" -> 2
      [] op.name = "receive" -> op.n[1]
      [] OTHER -> 0

============================================================================
